---- MODULE Spec2Model ----
(***************************************************************************)
(* Model of the multi-tier cache of smart-storage-operator                 *)
(* (src/src/cache): the three tier backends, the sharded LRU tracker, the  *)
(* per-tier metric blocks and the MultiTierCache manager that composes     *)
(* them.                                                                   *)
(*                                                                         *)
(* Units.  Sizes are counted in MiB, so that the tier thresholds of        *)
(* tier.rs (100 MiB, 1 GiB, 10 GiB) fit TLC's integers.  The u64 counters  *)
(* of the program wrap modulo 2^64; the model keeps the wrap-around but    *)
(* uses the modulus U64 below, which is far above every size the model     *)
(* handles.  Timestamps are whole seconds of a logical clock that every    *)
(* call advances by one, so the seconds/milliseconds conversions of the    *)
(* backends lose nothing.                                                  *)
(*                                                                         *)
(* Every manager call is one action.  The helper operators thread a        *)
(* "world" record w = [l1, l2, l3, lru, metrics, emitted, trace, panicked] *)
(* through the statements of the Rust code in program order.               *)
(***************************************************************************)
EXTENDS Integers, Sequences, FiniteSets, TLC

\* ------------------------------------------------------------------------
\* Bounds of the model
\* ------------------------------------------------------------------------

\* Number of manager calls explored from the initial state.
MaxCalls == 4

\* Number of distinct cache keys.
NumKeys == 2

\* Number of distinct node ids.
NumNodes == 2

\* Number of registry calls explored from the initial state.
MaxRegistryCalls == 4

\* Number of registry calls that may be between their two parts at once.
MaxInflight == 2

\* Largest value of the registry's clock.
MaxClock == 1

\* A dropped future is dropped at one of its first MaxAwaits suspensions.
MaxAwaits == 3

\* Threads that run operations side by side in the lock discipline.
NumThreads == 2

\* Largest number of cached files the L2 directory holds at start-up or clear.
MaxFiles == 1

\* Largest max_queue_size a prefetcher is configured with.
MaxQueueSize == 2

\* Number of requests submitted to the prefetcher in a run.
MaxSubmits == 4

\* Largest number of keys in one prefetch request.
MaxRequestKeys == 2

\* Largest max_keys passed to next_batch.
MaxBatchKeys == 2

\* Longest namespace or id string of a cache key.
MaxStringLen == 2

\* ------------------------------------------------------------------------
\* Program constants (tier.rs, lru.rs, compression.rs), in MiB
\* ------------------------------------------------------------------------

L1_MAX_SIZE_BYTES == 100

L2_MAX_SIZE_BYTES == 1024

CACHE_BYPASS_SIZE_BYTES == 10240

LRU_SHARD_COUNT == 64

\* lru.rs:276: every shard contributes at most this many candidates.
ShardCandidateCap == 100

\* Modulus of the wrapping unsigned counters (AtomicU64 fetch_add/fetch_sub).
U64 == 2 ^ 30

WrapAdd(a, b) == (a + b) % U64

WrapSub(a, b) == (a - b + U64) % U64

SaturatingSub(a, b) == IF a > b THEN a - b ELSE 0

\* ------------------------------------------------------------------------
\* Tiers (tier.rs)
\* ------------------------------------------------------------------------

L1Memory == "L1Memory"

L2Local == "L2Local"

L3Persistent == "L3Persistent"

CacheTier == {L1Memory, L2Local, L3Persistent}

NoTier == "NoTier"

lookup_order == <<L1Memory, L2Local, L3Persistent>>

\* A placement whose thresholds are exclusive.
for_size_exclusive(size_bytes) ==
    IF size_bytes >= CACHE_BYPASS_SIZE_BYTES THEN NoTier
    ELSE IF size_bytes < L1_MAX_SIZE_BYTES THEN L1Memory
    ELSE IF size_bytes < L2_MAX_SIZE_BYTES THEN L2Local
    ELSE L3Persistent

for_size(size_bytes) ==
    IF size_bytes > CACHE_BYPASS_SIZE_BYTES THEN NoTier
    ELSE IF size_bytes <= L1_MAX_SIZE_BYTES THEN L1Memory
    ELSE IF size_bytes <= L2_MAX_SIZE_BYTES THEN L2Local
    ELSE L3Persistent

max_object_size(tier) ==
    CASE tier = L1Memory -> L1_MAX_SIZE_BYTES
      [] tier = L2Local -> L2_MAX_SIZE_BYTES
      [] tier = L3Persistent -> CACHE_BYPASS_SIZE_BYTES

demotion_target(tier) ==
    CASE tier = L1Memory -> L2Local
      [] tier = L2Local -> L3Persistent
      [] tier = L3Persistent -> NoTier

promotion_target(tier) ==
    CASE tier = L1Memory -> NoTier
      [] tier = L2Local -> L1Memory
      [] tier = L3Persistent -> L2Local

\* ------------------------------------------------------------------------
\* Configuration (MultiTierCacheConfig).  The flags are the defaults of
\* l1_default / l2_default / l3_default; the capacities are set small, as a
\* caller may, so that a few objects put a tier under pressure.  The
\* eviction threshold is kept as a percentage.
\* ------------------------------------------------------------------------

TierConfig ==
    [t \in CacheTier |->
        CASE t = L1Memory ->
               [capacity_bytes |-> 2 * L1_MAX_SIZE_BYTES, eviction_threshold |-> 90,
                enable_demotion |-> TRUE, enable_compression |-> FALSE]
          [] t = L2Local ->
               [capacity_bytes |-> 2 * L1_MAX_SIZE_BYTES, eviction_threshold |-> 85,
                enable_demotion |-> TRUE, enable_compression |-> TRUE]
          [] t = L3Persistent ->
               [capacity_bytes |-> 2 * L1_MAX_SIZE_BYTES, eviction_threshold |-> 80,
                enable_demotion |-> FALSE, enable_compression |-> TRUE]]

tier_config(tier) == TierConfig[tier]

eviction_watermark(config) ==
    (config.capacity_bytes * config.eviction_threshold) \div 100

auto_promote == TRUE

\* ------------------------------------------------------------------------
\* Keys and payloads
\* ------------------------------------------------------------------------

\* A key stands for its hash (entry.rs: Hash for CacheKey).
Keys == 1 .. NumKeys

shard_index(key) == key % LRU_SHARD_COUNT

\* The byte strings callers put: id names the content, len is its length
\* and zlen the length of the output the default compressor gives for it.
Payloads ==
    { [id |-> "empty", len |-> 0, zlen |-> 1],
      [id |-> "a", len |-> L1_MAX_SIZE_BYTES, zlen |-> 60],
      [id |-> "c", len |-> L1_MAX_SIZE_BYTES + 1, zlen |-> L1_MAX_SIZE_BYTES + 2],
      [id |-> "h", len |-> L2_MAX_SIZE_BYTES + 1, zlen |-> 60] }

\* Byte strings whose lengths sit on the placement thresholds of tier.rs.
BoundaryPayloads ==
    { [id |-> "g", len |-> L2_MAX_SIZE_BYTES, zlen |-> 60],
      [id |-> "t", len |-> CACHE_BYPASS_SIZE_BYTES, zlen |-> 60],
      [id |-> "x", len |-> CACHE_BYPASS_SIZE_BYTES + 1, zlen |-> 60] }

\* A byte string on which the configured compressor returns an error.
FailingPayloads ==
    { [id |-> "z", len |-> L1_MAX_SIZE_BYTES + 1, zlen |-> 0, zerr |-> TRUE] }

CompressorFails(p) == "zerr" \in DOMAIN p

PayloadOf(id) ==
    CHOOSE p \in Payloads \cup BoundaryPayloads \cup FailingPayloads : p.id = id

\* A byte buffer: the verbatim payload, or the compressor's output for it.
RawBytes(p) == [enc |-> "none", id |-> p.id, len |-> p.len]

Lz4Bytes(p) == [enc |-> "lz4", id |-> p.id, len |-> p.zlen]

\* ------------------------------------------------------------------------
\* Compression (compression.rs)
\* ------------------------------------------------------------------------

\* min_size_bytes is 1024 bytes in the source: below one MiB, so a payload
\* is under it exactly when it is shorter than 1 in the unit used here.
CompressionConfig ==
    [default_algorithm |-> "lz4", min_size_bytes |-> 1, fallback_on_failure |-> TRUE]

\* CompressionManager::compress under a configuration with the given
\* fallback_on_failure: (stored bytes, algorithm used).  Both error arms
\* return the input verbatim; the second one logs a warning.
CompressionManager_compress(fallback, p) ==
    IF p.len < CompressionConfig.min_size_bytes
    THEN [bytes |-> RawBytes(p), algorithm |-> "none"]
    ELSE IF CompressorFails(p)
         THEN IF fallback
              THEN [bytes |-> RawBytes(p), algorithm |-> "none"]
              ELSE [bytes |-> RawBytes(p), algorithm |-> "none"]
    ELSE IF p.zlen < p.len
         THEN [bytes |-> Lz4Bytes(p), algorithm |-> CompressionConfig.default_algorithm]
         ELSE [bytes |-> RawBytes(p), algorithm |-> "none"]

\* CompressionManager::decompress: the no-op compressor copies verbatim, a
\* real one inverts its own output and fails on anything else.
decompress(bytes, algorithm) ==
    IF algorithm = "none" THEN [ok |-> TRUE, bytes |-> bytes]
    ELSE IF bytes.enc = algorithm
         THEN [ok |-> TRUE, bytes |-> RawBytes(PayloadOf(bytes.id))]
         ELSE [ok |-> FALSE, bytes |-> bytes]

\* ------------------------------------------------------------------------
\* Entries (entry.rs)
\* ------------------------------------------------------------------------

\* Option<CompressionAlgorithm>::None.
NoAlgorithm == "unset"

CacheData_uncompressed(bytes) ==
    [bytes |-> bytes, original_size |-> bytes.len, compressed |-> FALSE,
     compression_algorithm |-> NoAlgorithm]

CacheData_compressed(bytes, original_size, algorithm) ==
    [bytes |-> bytes, original_size |-> original_size, compressed |-> TRUE,
     compression_algorithm |-> algorithm]

\* CacheEntry::new; ttl_seconds is always None for entries the manager builds.
CacheEntry_new(key, data, tier, now_s) ==
    [kind |-> "entry", key |-> key, data |-> data, tier |-> tier,
     last_accessed |-> now_s]

stored_size(entry) == entry.data.bytes.len

EntryMetadata_from_entry(entry) ==
    [key |-> entry.key, size_bytes |-> stored_size(entry), tier |-> entry.tier,
     last_accessed_ms |-> entry.last_accessed]

\* Results of the backend calls: Ok(None), Err(..) or Ok(Some(entry)).
None == [kind |-> "none"]

Err == [kind |-> "err"]

IsSome(r) == r.kind = "entry"

\* ------------------------------------------------------------------------
\* L1 memory backend (storage/memory.rs).  b = [entries, size_bytes,
\* entry_count]; every operator returns [b |-> backend after, ret |-> result].
\* ------------------------------------------------------------------------

MemoryStorage_new ==
    [entries |-> [k \in Keys |-> None], size_bytes |-> 0, entry_count |-> 0]

MemoryStorage_get(b, key) == [b |-> b, ret |-> b.entries[key]]

MemoryStorage_put(b, entry) ==
    LET new_size == stored_size(entry)
        old_size == IF IsSome(b.entries[entry.key])
                    THEN stored_size(b.entries[entry.key]) ELSE 0
        counted ==
            IF old_size = 0
            THEN [b EXCEPT !.entry_count = WrapAdd(@, 1),
                           !.size_bytes = WrapAdd(@, new_size)]
            ELSE IF new_size > old_size
                 THEN [b EXCEPT !.size_bytes = WrapAdd(@, new_size - old_size)]
                 ELSE [b EXCEPT !.size_bytes = WrapSub(@, old_size - new_size)]
    IN [b |-> [counted EXCEPT !.entries[entry.key] = entry], ret |-> None]

\* A delete that hands the entry back without removing it.
MemoryStorage_delete_keeps_entry(b, key) == [b |-> b, ret |-> b.entries[key]]

MemoryStorage_delete(b, key) ==
    IF IsSome(b.entries[key])
    THEN [b |-> [b EXCEPT !.entries[key] = None,
                          !.entry_count = WrapSub(@, 1),
                          !.size_bytes = WrapSub(@, stored_size(b.entries[key]))],
          ret |-> b.entries[key]]
    ELSE [b |-> b, ret |-> None]

MemoryStorage_clear(b) == [b |-> MemoryStorage_new, ret |-> None]

\* ------------------------------------------------------------------------
\* L2 local-disk backend (storage/local.rs).  b = [index, data, meta,
\* size_bytes, entry_count]: the in-memory index (the keys it maps; a key's
\* path is a function of the key) and the two files per key on disk.
\* ------------------------------------------------------------------------

NoFile == [kind |-> "nofile"]

IsFile(f) == f.kind = "file"

LocalStorage_new ==
    [index |-> {}, data |-> [k \in Keys |-> NoFile], meta |-> [k \in Keys |-> NoFile],
     size_bytes |-> 0, entry_count |-> 0]

\* The sidecar record written by put (StoredMetadata); the algorithm is
\* stored as its display string.
StoredMetadata(entry) ==
    [kind |-> "file", key |-> entry.key,
     original_size |-> entry.data.original_size,
     compressed |-> entry.data.compressed,
     compression_algorithm |-> entry.data.compression_algorithm,
     last_accessed |-> entry.last_accessed]

\* The match on the stored algorithm string in get and delete: only the
\* three real algorithms parse, everything else gives Option::None.
ParseAlgorithm(s) == IF s \in {"lz4", "zstd", "snappy"} THEN s ELSE NoAlgorithm

\* Entry rebuilt from the data file and the sidecar (get and delete).
ReconstructEntry(meta, bytes, tier, last_accessed) ==
    [kind |-> "entry", key |-> meta.key,
     data |-> IF meta.compressed
              THEN CacheData_compressed(bytes, meta.original_size,
                       IF ParseAlgorithm(meta.compression_algorithm) = NoAlgorithm
                       THEN "none" ELSE ParseAlgorithm(meta.compression_algorithm))
              ELSE CacheData_uncompressed(bytes),
     tier |-> tier, last_accessed |-> last_accessed]

\* get; the detached access-time write-back it spawns is taken to have run
\* when the call returns.
LocalStorage_get(b, key, now_s) ==
    IF key \notin b.index \/ ~IsFile(b.meta[key]) \/ ~IsFile(b.data[key])
    THEN [b |-> b, ret |-> None]
    ELSE [b |-> [b EXCEPT !.meta[key].last_accessed = now_s],
          ret |-> ReconstructEntry(b.meta[key], b.data[key].bytes, L2Local,
                                   b.meta[key].last_accessed)]

LocalStorage_put(b, entry) ==
    LET key == entry.key
        new_size == stored_size(entry)
        old_size == IF key \in b.index /\ IsFile(b.data[key])
                    THEN b.data[key].bytes.len ELSE 0
        written == [b EXCEPT !.data[key] = [kind |-> "file", bytes |-> entry.data.bytes],
                             !.meta[key] = StoredMetadata(entry)]
        indexed == IF key \in b.index THEN written
                   ELSE [written EXCEPT !.index = @ \cup {key},
                                        !.entry_count = WrapAdd(@, 1)]
        sized == IF old_size = 0
                 THEN [indexed EXCEPT !.size_bytes = WrapAdd(@, new_size)]
                 ELSE IF new_size > old_size
                      THEN [indexed EXCEPT !.size_bytes = WrapAdd(@, new_size - old_size)]
                      ELSE [indexed EXCEPT !.size_bytes = WrapSub(@, old_size - new_size)]
    IN [b |-> sized, ret |-> None]

LocalStorage_delete(b, key) ==
    IF key \notin b.index THEN [b |-> b, ret |-> None]
    ELSE LET entry == IF IsFile(b.meta[key]) /\ IsFile(b.data[key])
                      THEN ReconstructEntry(b.meta[key], b.data[key].bytes, L2Local,
                                            b.meta[key].last_accessed)
                      ELSE None
             file_size == IF IsFile(b.data[key]) THEN b.data[key].bytes.len ELSE 0
         IN [b |-> [b EXCEPT !.index = @ \ {key},
                             !.data[key] = NoFile,
                             !.meta[key] = NoFile,
                             !.entry_count = WrapSub(@, 1),
                             !.size_bytes = WrapSub(@, file_size)],
             ret |-> entry]

LocalStorage_clear(b) ==
    [b |-> [b EXCEPT !.index = {},
                     !.data = [k \in Keys |-> IF k \in b.index THEN NoFile ELSE @[k]],
                     !.meta = [k \in Keys |-> IF k \in b.index THEN NoFile ELSE @[k]],
                     !.size_bytes = 0,
                     !.entry_count = 0],
     ret |-> None]

\* ------------------------------------------------------------------------
\* L3 persistent backend (storage/persistent.rs).  b = [store, size_bytes,
\* entry_count, available].
\* ------------------------------------------------------------------------

PersistentStorage_new ==
    [store |-> [k \in Keys |-> None], size_bytes |-> 0, entry_count |-> 0,
     available |-> TRUE]

\* StoredEntry keeps the algorithm as its display string, like the sidecar.
PersistentStorage_get(b, key, now_s) ==
    IF ~b.available THEN [b |-> b, ret |-> Err]
    ELSE IF ~IsSome(b.store[key]) THEN [b |-> b, ret |-> None]
    ELSE LET stored == b.store[key]
             meta == StoredMetadata(stored)
         IN [b |-> [b EXCEPT !.store[key].last_accessed = now_s],
             ret |-> ReconstructEntry(meta, stored.data.bytes, L3Persistent, now_s)]

PersistentStorage_put(b, entry) ==
    IF ~b.available THEN [b |-> b, ret |-> Err]
    ELSE LET new_size == stored_size(entry)
             old_size == IF IsSome(b.store[entry.key])
                         THEN stored_size(b.store[entry.key]) ELSE 0
             inserted == [b EXCEPT !.store[entry.key] = entry]
         IN [b |-> IF old_size = 0
                   THEN [inserted EXCEPT !.entry_count = WrapAdd(@, 1),
                                         !.size_bytes = WrapAdd(@, new_size)]
                   ELSE IF new_size > old_size
                        THEN [inserted EXCEPT !.size_bytes = WrapAdd(@, new_size - old_size)]
                        ELSE [inserted EXCEPT !.size_bytes = WrapSub(@, old_size - new_size)],
             ret |-> None]

PersistentStorage_delete(b, key) ==
    IF ~b.available THEN [b |-> b, ret |-> Err]
    ELSE IF ~IsSome(b.store[key]) THEN [b |-> b, ret |-> None]
    ELSE LET stored == b.store[key]
         IN [b |-> [b EXCEPT !.store[key] = None,
                             !.entry_count = WrapSub(@, 1),
                             !.size_bytes = WrapSub(@, stored_size(stored))],
             ret |-> ReconstructEntry(StoredMetadata(stored), stored.data.bytes,
                                      L3Persistent, stored.last_accessed)]

\* contains and keys: the store is read, nothing is written.
PersistentStorage_contains(b, key) ==
    IF ~b.available THEN [b |-> b, ret |-> Err]
    ELSE [b |-> b, ret |-> [kind |-> "Ok", value |-> IsSome(b.store[key])]]

PersistentStorage_keys(b) ==
    IF ~b.available THEN [b |-> b, ret |-> Err]
    ELSE [b |-> b, ret |-> [kind |-> "Ok", value |-> {k \in Keys : IsSome(b.store[k])}]]

\* health_check reports the flag and does not fail.
PersistentStorage_health_check(b) ==
    [b |-> b, ret |-> [kind |-> "Ok", value |-> b.available]]

PersistentStorage_clear(b) ==
    IF ~b.available THEN [b |-> b, ret |-> Err]
    ELSE [b |-> [b EXCEPT !.store = [k \in Keys |-> None],
                          !.size_bytes = 0, !.entry_count = 0],
          ret |-> None]

\* ------------------------------------------------------------------------
\* State
\* ------------------------------------------------------------------------

VARIABLES
    l1,               \* MemoryStorage
    l2,               \* LocalStorage
    l3,               \* PersistentStorage
    lru,              \* ShardedLruTracker
    metrics,          \* CacheMetrics: one CacheTierMetrics block per tier
    emitted,          \* events sent on event_tx by the latest call
    trace,            \* internal calls made by the latest call, in order
    result,           \* the latest call and what it returned
    last_put,         \* per key, the payload of the latest put that returned Ok
                      \* (SpecDeleteRace: "deleted" once a delete of the key returned)
    now,              \* logical clock (seconds); also the number of calls made
    overflow_checks,  \* build profile: TRUE = u64 `+` panics on overflow
    fallback_on_failure,  \* CompressionConfig.fallback_on_failure of the manager
    shards,           \* NodeRegistry.shards: per shard, its node map and ShardStats
    global_stats,     \* NodeRegistry.global_stats
    event_sender,     \* every RegistryEvent sent so far, in order
    heap,             \* the DriveMetrics blocks allocated so far (Arc targets)
    inflight,         \* registry calls that have started and not yet returned
    reg_result,       \* the latest registry call that returned, and its result
    calls,            \* number of registry calls started
    clock,            \* Utc::now() in seconds, as the registry reads it
    tasks,            \* cache calls suspended at an await: an evict and a get
    threads,          \* per thread: the operation it runs, its position, its guards
    booted,           \* LocalStorage::with_config has returned in this process
    prefetcher,       \* the Prefetcher: its config, its queue, its counters
    prefetch_history, \* what became of every request the queue has held
    l2ops             \* L2 calls in flight, step by step, and spawned write-backs

cacheVars ==
    <<l1, l2, l3, lru, metrics, emitted, trace, result, last_put, now,
      overflow_checks, fallback_on_failure>>

registryVars ==
    <<shards, global_stats, event_sender, heap, inflight, reg_result, calls, clock>>

lockVars == <<threads, booted>>

prefetchVars == <<prefetcher, prefetch_history>>

diskVars == <<l2ops>>

vars == <<cacheVars, registryVars, tasks, lockVars, prefetchVars, diskVars>>

\* self.compression.compress(&data) of the manager
compress(p) == CompressionManager_compress(fallback_on_failure, p)

\* ------------------------------------------------------------------------
\* LRU tracker (lru.rs).  Only the shards some key maps to are kept.
\* The eviction policy is the default, EvictionPolicy::Lru, which scores by
\* age alone.
\* ------------------------------------------------------------------------

ShardIds == {shard_index(k) : k \in Keys}

ShardedLruTracker_new ==
    [shards |-> [i \in ShardIds |-> <<>>], entry_count |-> 0]

ShardHas(shard, key) == \E i \in 1 .. Len(shard) : shard[i].key = key

ShardWithout(shard, key) == SelectSeq(shard, LAMBDA m : m.key # key)

ShardEntry(shard, key) == (SelectSeq(shard, LAMBDA m : m.key = key))[1]

\* LruShard::track: drop the old record, append the new one at the back.
LruShard_track(shard, metadata) ==
    Append(ShardWithout(shard, metadata.key), metadata)

\* LruShard::access: move to the back and refresh last_accessed_ms.
LruShard_access(shard, key, now_ms) ==
    IF ShardHas(shard, key)
    THEN Append(ShardWithout(shard, key),
                [ShardEntry(shard, key) EXCEPT !.last_accessed_ms = now_ms])
    ELSE shard

ShardedLruTracker_track(t, metadata) ==
    LET i == shard_index(metadata.key)
        was_new == ~ShardHas(t.shards[i], metadata.key)
    IN [shards |-> [t.shards EXCEPT ![i] = LruShard_track(@, metadata)],
        entry_count |-> IF was_new THEN WrapAdd(t.entry_count, 1) ELSE t.entry_count]

ShardedLruTracker_access(t, key, now_ms) ==
    [t EXCEPT !.shards[shard_index(key)] = LruShard_access(@, key, now_ms)]

ShardedLruTracker_remove(t, key) ==
    LET i == shard_index(key)
    IN IF ShardHas(t.shards[i], key)
       THEN [shards |-> [t.shards EXCEPT ![i] = ShardWithout(@, key)],
             entry_count |-> WrapSub(t.entry_count, 1)]
       ELSE t

ShardedLruTracker_clear_tier(t, tier) ==
    LET kept == [i \in ShardIds |-> SelectSeq(t.shards[i], LAMBDA m : m.tier # tier)]
        removed == Cardinality({k \in Keys :
                        /\ ShardHas(t.shards[shard_index(k)], k)
                        /\ ShardEntry(t.shards[shard_index(k)], k).tier = tier})
    IN [shards |-> kept, entry_count |-> WrapSub(t.entry_count, removed)]

\* LruShard::calculate_score for EvictionPolicy::Lru: the age.
calculate_score(metadata, now_ms) == SaturatingSub(now_ms, metadata.last_accessed_ms)

\* Vec::sort_by on descending score: a stable sort.
RECURSIVE InsertByScore(_, _)
InsertByScore(sorted, c) ==
    IF sorted = <<>> THEN <<c>>
    ELSE IF Head(sorted).score >= c.score
         THEN <<Head(sorted)>> \o InsertByScore(Tail(sorted), c)
         ELSE <<c>> \o sorted

RECURSIVE SortByScore(_)
SortByScore(s) ==
    IF s = <<>> THEN <<>>
    ELSE InsertByScore(SortByScore(SubSeq(s, 1, Len(s) - 1)), s[Len(s)])

Truncate(s, n) == IF Len(s) > n THEN SubSeq(s, 1, n) ELSE s

\* LruShard::get_eviction_candidates.
LruShard_get_eviction_candidates(shard, tier, count, now_ms) ==
    LET matching == SelectSeq(shard, LAMBDA m : m.tier = tier)
        scored == [i \in 1 .. Len(matching) |->
                     [key |-> matching[i].key, size_bytes |-> matching[i].size_bytes,
                      tier |-> matching[i].tier,
                      score |-> calculate_score(matching[i], now_ms)]]
    IN Truncate(SortByScore(scored), count)

\* The shards in iteration order.
RECURSIVE ShardOrder(_)
ShardOrder(ids) ==
    IF ids = {} THEN <<>>
    ELSE LET lo == CHOOSE i \in ids : \A j \in ids : i <= j
         IN <<lo>> \o ShardOrder(ids \ {lo})

RECURSIVE CollectCandidates(_, _, _, _)
CollectCandidates(t, order, tier, now_ms) ==
    IF order = <<>> THEN <<>>
    ELSE LruShard_get_eviction_candidates(t.shards[Head(order)], tier,
                                          ShardCandidateCap, now_ms)
         \o CollectCandidates(t, Tail(order), tier, now_ms)

\* The selection loop: push, add the size, stop once bytes_needed is covered.
RECURSIVE SelectCandidates(_, _, _)
SelectCandidates(cands, total_bytes, bytes_needed) ==
    IF cands = <<>> THEN <<>>
    ELSE IF total_bytes + Head(cands).size_bytes >= bytes_needed
         THEN <<Head(cands)>>
         ELSE <<Head(cands)>>
              \o SelectCandidates(Tail(cands), total_bytes + Head(cands).size_bytes,
                                  bytes_needed)

ShardedLruTracker_get_eviction_candidates(t, tier, bytes_needed, now_ms) ==
    SelectCandidates(
        SortByScore(CollectCandidates(t, ShardOrder(ShardIds), tier, now_ms)),
        0, bytes_needed)

\* The tier tag of the record the tracker holds for key, or NoTier.
LruTierOf(t, key) ==
    IF ShardHas(t.shards[shard_index(key)], key)
    THEN ShardEntry(t.shards[shard_index(key)], key).tier
    ELSE NoTier

\* ------------------------------------------------------------------------
\* Per-tier metrics (metrics.rs)
\* ------------------------------------------------------------------------

CacheTierMetrics_new ==
    [hits |-> 0, misses |-> 0, bytes_stored |-> 0, entry_count |-> 0,
     evictions |-> 0, demotions |-> 0]

record_hit(m) == [m EXCEPT !.hits = WrapAdd(@, 1)]

record_miss(m) == [m EXCEPT !.misses = WrapAdd(@, 1)]

record_put(m, size_bytes) ==
    [m EXCEPT !.entry_count = WrapAdd(@, 1), !.bytes_stored = WrapAdd(@, size_bytes)]

record_remove(m, size_bytes) ==
    [m EXCEPT !.entry_count = WrapSub(@, 1), !.bytes_stored = WrapSub(@, size_bytes)]

record_eviction(m, size_bytes) ==
    record_remove([m EXCEPT !.evictions = WrapAdd(@, 1)], size_bytes)

record_demotion(m, size_bytes) ==
    record_remove([m EXCEPT !.demotions = WrapAdd(@, 1)], size_bytes)

\* A reset that clears the cumulative counters too.
reset_storage_all(m) == CacheTierMetrics_new

reset_storage(m) == [m EXCEPT !.entry_count = 0, !.bytes_stored = 0]

\* ------------------------------------------------------------------------
\* Multi-tier manager (manager.rs): helpers over the world record
\* ------------------------------------------------------------------------

\* The world a call runs in.  drop_at = n > 0: the caller drops the future of
\* the call at the n-th await that suspends it; awaits counts those passed.
World ==
    [l1 |-> l1, l2 |-> l2, l3 |-> l3, lru |-> lru, metrics |-> metrics,
     emitted |-> <<>>, trace |-> <<>>, panicked |-> FALSE,
     awaits |-> 0, drop_at |-> 0, cancelled |-> FALSE]

\* The future reaches an await that suspends it: it is dropped there, or it
\* is resumed later.
Await(w) ==
    IF w.awaits + 1 = w.drop_at
    THEN [w EXCEPT !.cancelled = TRUE]
    ELSE [w EXCEPT !.awaits = @ + 1]

\* The call no longer runs: it panicked or its future was dropped.
Unwinding(w) == w.panicked \/ w.cancelled

\* LocalStorage get / put / delete from their first file operation on, the
\* only awaits of a backend that suspend.  A future dropped there has done
\* what precedes the await: nothing for get and put, the removal from the
\* index for delete.
L2Get(a, key, now_s) ==
    IF a.cancelled THEN [w |-> a, ret |-> None]
    ELSE [w |-> [a EXCEPT !.l2 = LocalStorage_get(a.l2, key, now_s).b],
          ret |-> LocalStorage_get(a.l2, key, now_s).ret]

L2Put(a, entry) ==
    IF a.cancelled THEN [w |-> a, ret |-> None]
    ELSE [w |-> [a EXCEPT !.l2 = LocalStorage_put(a.l2, entry).b],
          ret |-> LocalStorage_put(a.l2, entry).ret]

L2Delete(a, key) ==
    IF a.cancelled THEN [w |-> [a EXCEPT !.l2.index = @ \ {key}], ret |-> None]
    ELSE [w |-> [a EXCEPT !.l2 = LocalStorage_delete(a.l2, key).b],
          ret |-> LocalStorage_delete(a.l2, key).ret]

emit_event(w, event) == [w EXCEPT !.emitted = Append(@, event)]

Traced(w, call) == [w EXCEPT !.trace = Append(@, call)]

\* TierStorage::contains of the tier's backend.
Holds(w, tier, key) ==
    CASE tier = L1Memory -> IsSome(w.l1.entries[key])
      [] tier = L2Local -> key \in w.l2.index
      [] tier = L3Persistent -> IsSome(w.l3.store[key])

\* self.storage(tier).get / put / delete / clear
storage_get(w, tier, key, now_s) ==
    CASE tier = L1Memory ->
           LET r == MemoryStorage_get(w.l1, key)
           IN [w |-> [w EXCEPT !.l1 = r.b], ret |-> r.ret]
      [] tier = L2Local ->
           L2Get(IF key \in w.l2.index THEN Await(w) ELSE w, key, now_s)
      [] tier = L3Persistent ->
           LET r == PersistentStorage_get(w.l3, key, now_s)
           IN [w |-> [w EXCEPT !.l3 = r.b], ret |-> r.ret]

storage_put(w, tier, entry) ==
    CASE tier = L1Memory ->
           LET r == MemoryStorage_put(w.l1, entry)
           IN [w |-> [w EXCEPT !.l1 = r.b], ret |-> r.ret]
      [] tier = L2Local -> L2Put(Await(w), entry)
      [] tier = L3Persistent ->
           LET r == PersistentStorage_put(w.l3, entry)
           IN [w |-> [w EXCEPT !.l3 = r.b], ret |-> r.ret]

storage_delete(w, tier, key) ==
    CASE tier = L1Memory ->
           LET r == MemoryStorage_delete(w.l1, key)
           IN [w |-> [w EXCEPT !.l1 = r.b], ret |-> r.ret]
      [] tier = L2Local ->
           L2Delete(IF key \in w.l2.index THEN Await(w) ELSE w, key)
      [] tier = L3Persistent ->
           LET r == PersistentStorage_delete(w.l3, key)
           IN [w |-> [w EXCEPT !.l3 = r.b], ret |-> r.ret]

storage_clear(w, tier) ==
    CASE tier = L1Memory ->
           LET r == MemoryStorage_clear(w.l1)
           IN [w |-> [w EXCEPT !.l1 = r.b], ret |-> r.ret]
      [] tier = L2Local ->
           LET r == LocalStorage_clear(w.l2)
           IN [w |-> [w EXCEPT !.l2 = r.b], ret |-> r.ret]
      [] tier = L3Persistent ->
           LET r == PersistentStorage_clear(w.l3)
           IN [w |-> [w EXCEPT !.l3 = r.b], ret |-> r.ret]

storage_size_bytes(w, tier) ==
    CASE tier = L1Memory -> w.l1.size_bytes
      [] tier = L2Local -> w.l2.size_bytes
      [] tier = L3Persistent -> w.l3.size_bytes

storage_entry_count(w, tier) ==
    CASE tier = L1Memory -> w.l1.entry_count
      [] tier = L2Local -> w.l2.entry_count
      [] tier = L3Persistent -> w.l3.entry_count

\* A snapshot of where key is held while it hops from one tier to another.
Hop(w, key, from, to, phase) ==
    [call |-> "hop", key |-> key, from |-> from, to |-> to, phase |-> phase,
     in_from |-> Holds(w, from, key), in_to |-> Holds(w, to, key)]

RECURSIVE ensure_capacity(_, _, _, _)
RECURSIVE evict(_, _, _, _)
RECURSIVE EvictLoop(_, _, _, _, _)
RECURSIVE EvictCandidate(_, _, _, _)
RECURSIVE EvictDeleted(_, _, _, _, _)
RECURSIVE demote(_, _, _)

\* demote after the put into the target tier returned p: track, metrics, event.
DemoteStored(p, entry, target_tier) ==
    IF p.w.cancelled THEN [w |-> p.w, ret |-> "cancelled"]
    ELSE IF p.ret = Err THEN [w |-> p.w, ret |-> "err"]
    ELSE LET size == stored_size(entry)
             demoted_entry == [entry EXCEPT !.tier = target_tier]
             w3 == [p.w EXCEPT
                      !.lru = ShardedLruTracker_track(@, EntryMetadata_from_entry(demoted_entry)),
                      !.metrics[entry.tier] = record_demotion(@, size)]
             w4 == [w3 EXCEPT !.metrics[target_tier] = record_put(@, size)]
             w5 == emit_event(w4, [type |-> "Demote", key |-> entry.key,
                                   from_tier |-> entry.tier, to_tier |-> target_tier,
                                   size_bytes |-> size])
         IN [w |-> Traced(w5, Hop(w4, entry.key, entry.tier, target_tier, "stored")),
             ret |-> "true"]

\* demote after ensure_capacity on the target tier left the world w1.
DemoteWithCapacity(w1, entry, target_tier) ==
    IF Unwinding(w1) THEN [w |-> w1, ret |-> "panic"]
    ELSE DemoteStored(
             storage_put(Traced(w1, Hop(w1, entry.key, entry.tier, target_tier, "before_put")),
                         target_tier, [entry EXCEPT !.tier = target_tier]),
             entry, target_tier)

\* MultiTierCache::demote -> [w, ret]; ret is "true", "false", "err" or,
\* when the nested ensure_capacity panicked, "panic".
demote(w, entry, now_s) ==
    IF demotion_target(entry.tier) = NoTier THEN [w |-> w, ret |-> "false"]
    ELSE DemoteWithCapacity(
             ensure_capacity(
                 Traced(w, Hop(w, entry.key, entry.tier, demotion_target(entry.tier),
                               "deleted")),
                 demotion_target(entry.tier), stored_size(entry), now_s),
             entry, demotion_target(entry.tier))

\* evict, one candidate, after demote (or no demotion) returned dm: the
\* event, the metrics of the evicted tier and the tracker.
EvictSettled(dm, tier, candidate, size, freed) ==
    IF Unwinding(dm.w) THEN [w |-> dm.w, freed |-> freed]
    ELSE IF dm.ret = "true"
         THEN [w |-> [dm.w EXCEPT !.metrics[tier] = record_demotion(@, size)],
               freed |-> freed + size]
         ELSE [w |-> [emit_event(dm.w, [type |-> "Evict", key |-> candidate.key,
                                        tier |-> tier, size_bytes |-> size,
                                        reason |-> "Capacity"])
                        EXCEPT !.metrics[tier] = record_eviction(@, size),
                               !.lru = ShardedLruTracker_remove(@, candidate.key)],
               freed |-> freed + size]

\* evict, one candidate, after storage.delete returned d.
EvictDeleted(d, tier, candidate, freed, now_s) ==
    IF ~IsSome(d.ret) THEN [w |-> d.w, freed |-> freed]
    ELSE EvictSettled(
             IF tier_config(tier).enable_demotion
             THEN demote(d.w, d.ret, now_s)
             ELSE [w |-> d.w, ret |-> "false"],
             tier, candidate, stored_size(d.ret), freed)

\* One iteration of the loop of evict: r = [w, freed] before -> [w, freed].
EvictCandidate(r, tier, candidate, now_s) ==
    EvictDeleted(storage_delete(r.w, tier, candidate.key), tier, candidate,
                 r.freed, now_s)

EvictLoop(r, tier, candidates, bytes_to_free, now_s) ==
    IF candidates = <<>> \/ r.freed >= bytes_to_free \/ Unwinding(r.w)
    THEN r
    ELSE EvictLoop(EvictCandidate(r, tier, Head(candidates), now_s),
                   tier, Tail(candidates), bytes_to_free, now_s)

\* StorageCache::evict -> [w, freed]
evict(w, tier, bytes_to_free, now_s) ==
    EvictLoop([w |-> w, freed |-> 0], tier,
              ShardedLruTracker_get_eviction_candidates(w.lru, tier, bytes_to_free, now_s),
              bytes_to_free, now_s)

\* ensure_capacity on return: the call is logged with bytes_stored of the
\* tier at entry and at exit.
CapacityEnsured(done, tier, needed, current) ==
    IF Unwinding(done) THEN done
    ELSE Traced(done, [call |-> "ensure_capacity", tier |-> tier, needed |-> needed,
                       before |-> current,
                       after |-> done.metrics[tier].bytes_stored])

\* MultiTierCache::ensure_capacity -> w.  `current + needed` is a plain u64
\* addition: it wraps, or panics when the build checks overflow.
ensure_capacity(w, tier, needed, now_s) ==
    LET current == w.metrics[tier].bytes_stored
        threshold == eviction_watermark(tier_config(tier))
        sum == (current + needed) % U64
        to_evict == SaturatingSub(sum, threshold) + (threshold \div 10)
    IN IF current + needed >= U64 /\ overflow_checks
       THEN [w EXCEPT !.panicked = TRUE]
       ELSE CapacityEnsured(
                IF sum <= threshold THEN w ELSE evict(w, tier, to_evict, now_s).w,
                tier, needed, current)

\* promote after the put into the target tier returned p.
PromoteStored(p, entry, target_tier) ==
    IF p.w.cancelled THEN [w |-> p.w, ret |-> "cancelled"]
    ELSE IF p.ret = Err THEN [w |-> p.w, ret |-> "err"]
    ELSE LET size == stored_size(entry)
             promoted_entry == [entry EXCEPT !.tier = target_tier]
             w2 == [p.w EXCEPT
                      !.lru = ShardedLruTracker_track(@, EntryMetadata_from_entry(promoted_entry)),
                      !.metrics[target_tier] = record_put(@, size)]
         IN [w |-> emit_event(w2, [type |-> "Promote", key |-> entry.key,
                                   from_tier |-> entry.tier, to_tier |-> target_tier,
                                   size_bytes |-> size]),
             ret |-> "true"]

\* promote after ensure_capacity on the target tier left the world w1.
PromoteWithCapacity(w1, entry, target_tier) ==
    IF Unwinding(w1) THEN [w |-> w1, ret |-> "panic"]
    ELSE PromoteStored(storage_put(w1, target_tier, [entry EXCEPT !.tier = target_tier]),
                       entry, target_tier)

\* MultiTierCache::promote -> [w, ret]
promote(w, entry, target_tier, now_s) ==
    IF stored_size(entry) > max_object_size(target_tier)
    THEN [w |-> w, ret |-> "false"]
    ELSE PromoteWithCapacity(ensure_capacity(w, target_tier, stored_size(entry), now_s),
                             entry, target_tier)

\* ------------------------------------------------------------------------
\* StorageCache for MultiTierCache: the public calls -> [w, ret]
\* ------------------------------------------------------------------------

Miss == [kind |-> "Miss"]

Hit(data, tier, promoted) ==
    [kind |-> "Hit", data |-> data, tier |-> tier, promoted |-> promoted]

Failed == [kind |-> "Err"]

Panicked == [kind |-> "Panic"]

\* Not a return value: the caller dropped the future of the call.
Cancelled == [kind |-> "Cancelled"]

Ok(value) == [kind |-> "Ok", value |-> value]

\* get, a hit, after the promotion attempt returned pr: event and result.
GetPromoted(pr, key, tier, data) ==
    IF pr.w.panicked THEN [w |-> pr.w, ret |-> Panicked]
    ELSE IF pr.w.cancelled THEN [w |-> pr.w, ret |-> Cancelled]
    ELSE [w |-> emit_event(pr.w, [type |-> "Hit", key |-> key, tier |-> tier,
                                  promoted |-> pr.ret = "true"]),
          ret |-> Hit(data, tier, pr.ret = "true")]

\* get, a hit whose payload decompressed to data (data.ok) or failed to.
GetDecompressed(w1, key, tier, entry, data, now_s) ==
    IF ~data.ok THEN [w |-> w1, ret |-> Failed]
    ELSE GetPromoted(
             IF auto_promote /\ tier # L1Memory /\ promotion_target(tier) # NoTier
                /\ stored_size(entry) <= max_object_size(promotion_target(tier))
             THEN promote(w1, entry, promotion_target(tier), now_s)
             ELSE [w |-> w1, ret |-> "false"],
             key, tier, data.bytes)

\* The body of the loop of get for a hit in `tier`.
GetHit(w, key, tier, entry, now_s) ==
    GetDecompressed(
        [w EXCEPT !.metrics[tier] = record_hit(@),
                  !.lru = ShardedLruTracker_access(@, key, now_s)],
        key, tier, entry,
        IF entry.data.compressed
        THEN decompress(entry.data.bytes,
                        IF entry.data.compression_algorithm = NoAlgorithm
                        THEN "none" ELSE entry.data.compression_algorithm)
        ELSE [ok |-> TRUE, bytes |-> entry.data.bytes],
        now_s)

RECURSIVE GetFrom(_, _, _, _)
RECURSIVE GetLooked(_, _, _, _)

\* A lookup that gives up at the first tier whose get fails.
GetLooked_fails_on_error(r, key, i, now_s) ==
    IF r.w.cancelled THEN [w |-> r.w, ret |-> Cancelled]
    ELSE IF IsSome(r.ret) THEN GetHit(r.w, key, lookup_order[i], r.ret, now_s)
    ELSE IF r.ret = None
         THEN GetFrom([r.w EXCEPT !.metrics[lookup_order[i]] = record_miss(@)],
                      key, i + 1, now_s)
         ELSE [w |-> r.w, ret |-> Failed]

\* get, after storage.get on tier lookup_order[i] returned r.
GetLooked(r, key, i, now_s) ==
    IF r.w.cancelled THEN [w |-> r.w, ret |-> Cancelled]
    ELSE IF IsSome(r.ret) THEN GetHit(r.w, key, lookup_order[i], r.ret, now_s)
    ELSE IF r.ret = None
         THEN GetFrom([r.w EXCEPT !.metrics[lookup_order[i]] = record_miss(@)],
                      key, i + 1, now_s)
         ELSE GetFrom(r.w, key, i + 1, now_s)

\* get: the lookup loop from position i of lookup_order.
GetFrom(w, key, i, now_s) ==
    IF i > Len(lookup_order)
    THEN [w |-> emit_event(w, [type |-> "Miss", key |-> key]), ret |-> Miss]
    ELSE GetLooked(storage_get(w, lookup_order[i], key, now_s), key, i, now_s)

get(w, key, now_s) == GetFrom(w, key, 1, now_s)

\* put_with_tier after the put into the tier returned p.
PutStored(p, entry, algorithm) ==
    IF p.ret = Err THEN [w |-> p.w, ret |-> Failed]
    ELSE [w |-> emit_event(
                    [p.w EXCEPT
                       !.lru = ShardedLruTracker_track(@, EntryMetadata_from_entry(entry)),
                       !.metrics[entry.tier] = record_put(@, stored_size(entry))],
                    [type |-> "Put", key |-> entry.key, tier |-> entry.tier,
                     size_bytes |-> stored_size(entry),
                     compressed |-> algorithm # "none"]),
          ret |-> Ok(entry.tier)]

\* A put_with_tier that updates the tracker before the backend put.
PutWithCapacity_tracks_first(w1, entry, algorithm) ==
    IF w1.panicked THEN [w |-> w1, ret |-> Panicked]
    ELSE PutStored(
             storage_put(
                 [w1 EXCEPT !.lru = ShardedLruTracker_track(
                                        @, EntryMetadata_from_entry(entry))],
                 entry.tier, entry),
             entry, algorithm)

\* put_with_tier after ensure_capacity left the world w1.
PutWithCapacity(w1, entry, algorithm) ==
    IF w1.panicked THEN [w |-> w1, ret |-> Panicked]
    ELSE PutStored(storage_put(w1, entry.tier, entry), entry, algorithm)

\* put_with_tier from the built entry on.
PutEntry(w, entry, algorithm, now_s) ==
    PutWithCapacity(ensure_capacity(w, entry.tier, stored_size(entry), now_s),
                    entry, algorithm)

put_with_tier(w, key, payload, tier, now_s) ==
    LET c == IF tier_config(tier).enable_compression
             THEN compress(payload)
             ELSE [bytes |-> RawBytes(payload), algorithm |-> "none"]
        cache_data == IF c.algorithm # "none"
                      THEN CacheData_compressed(c.bytes, payload.len, c.algorithm)
                      ELSE CacheData_uncompressed(c.bytes)
    IN PutEntry(w, CacheEntry_new(key, cache_data, tier, now_s), c.algorithm, now_s)

put(w, key, payload, now_s) ==
    IF payload.len > CACHE_BYPASS_SIZE_BYTES THEN [w |-> w, ret |-> Failed]
    ELSE IF for_size(payload.len) = NoTier THEN [w |-> w, ret |-> Failed]
    ELSE put_with_tier(w, key, payload, for_size(payload.len), now_s)

RECURSIVE DeleteFrom(_, _, _, _)
RECURSIVE DeleteLooked(_, _, _, _)

\* delete, after storage.delete on tier lookup_order[i] returned d.
DeleteLooked(d, key, i, deleted) ==
    IF IsSome(d.ret)
    THEN DeleteFrom(
             emit_event([d.w EXCEPT !.metrics[lookup_order[i]] =
                                        record_remove(@, stored_size(d.ret))],
                        [type |-> "Delete", key |-> key, tier |-> lookup_order[i]]),
             key, i + 1, TRUE)
    ELSE DeleteFrom(d.w, key, i + 1, deleted)

\* delete: the loop over lookup_order from position i.
DeleteFrom(w, key, i, deleted) ==
    IF i > Len(lookup_order)
    THEN [w |-> [w EXCEPT !.lru = ShardedLruTracker_remove(@, key)], ret |-> Ok(deleted)]
    ELSE DeleteLooked(storage_delete(w, lookup_order[i], key), key, i, deleted)

delete(w, key) == DeleteFrom(w, key, 1, FALSE)

\* clear_tier after storage.clear returned c.
TierCleared(c, tier, entries, bytes) ==
    IF c.ret = Err THEN [w |-> c.w, ret |-> Failed]
    ELSE [w |-> emit_event([c.w EXCEPT !.lru = ShardedLruTracker_clear_tier(@, tier),
                                       !.metrics[tier] = reset_storage(@)],
                           [type |-> "TierCleared", tier |-> tier,
                            entries_removed |-> entries, bytes_freed |-> bytes]),
          ret |-> Ok(TRUE)]

clear_tier(w, tier) ==
    TierCleared(storage_clear(w, tier), tier,
                storage_entry_count(w, tier), storage_size_bytes(w, tier))

\* ------------------------------------------------------------------------
\* Node registry (hardware/registry/node_registry.rs)
\* ------------------------------------------------------------------------

REGISTRY_SHARD_COUNT == 256

\* A node id stands for its hash (NodeId::shard_index hashes the name).
NodeIds == 1 .. NumNodes

NodeId_shard_index(node_id) == node_id % REGISTRY_SHARD_COUNT

\* Only the shards some node id maps to are kept.
RegistryShardIds == {NodeId_shard_index(n) : n \in NodeIds}

DriveIds == {"d1", "d2"}

\* The StorageNodeStatus values callers pass: the drives (a Vec, by drive id)
\* and the two capacity fields the registry reads.
Statuses ==
    { [drives |-> <<"d1">>, total_capacity_bytes |-> 10,
       available_capacity_bytes |-> 5],
      [drives |-> <<"d1", "d2">>, total_capacity_bytes |-> 20,
       available_capacity_bytes |-> 8] }

Hostnames == {"host-001.local"}

\* `max_heartbeat_age_secs as i64`: the u64 reinterpreted as a signed value.
as_i64(x) == IF x >= U64 \div 2 THEN x - U64 ELSE x

\* DriveMetrics: the block an Arc points to.  Of its seven atomics the model
\* keeps iops, wear_level_permille and last_update_ms.
DriveMetrics_default ==
    [iops |-> 0, wear_level_permille |-> 0, last_update_ms |-> 0]

DriveMetrics_update(block, iops, wear_level_percent, now_s) ==
    [iops |-> iops,
     wear_level_permille |-> (wear_level_percent * 10) % U64,
     last_update_ms |-> now_s * 1000]

get_iops(block) == block.iops

get_wear_level_percent(block) == (block.wear_level_permille \div 10) % 256

\* The (iops, wear_level_percent) pairs callers report.
Samples == {[iops |-> 10000, wear_level_percent |-> 5]}

\* Arc::new(DriveMetrics::default()): the heap grows by one block; an Arc is
\* the position of its block in the heap.
RECURSIVE InsertBlocks(_, _, _)
\* The loop of NodeEntry::new and of the first half of update_status:
\* r = [drive_metrics, heap]; a block is inserted for each drive of `drives`
\* (always, or only for a drive id that has none yet).
InsertBlocks(r, drives, only_missing) ==
    IF drives = <<>> THEN r
    ELSE LET id == Head(drives)
         IN IF only_missing /\ id \in DOMAIN r.drive_metrics
            THEN InsertBlocks(r, Tail(drives), only_missing)
            ELSE InsertBlocks(
                     [drive_metrics |->
                          [d \in DOMAIN r.drive_metrics \cup {id} |->
                              IF d = id THEN Len(r.heap) + 1 ELSE r.drive_metrics[d]],
                      heap |-> Append(r.heap, DriveMetrics_default)],
                     Tail(drives), only_missing)

NoDriveMetrics == [d \in {} |-> 0]

\* NodeEntry::new -> [entry, heap]
NodeEntry_new(h, node_id, hostname, status, now_s) ==
    LET r == InsertBlocks([drive_metrics |-> NoDriveMetrics, heap |-> h],
                          status.drives, FALSE)
    IN [entry |-> [node_id |-> node_id, hostname |-> hostname, status |-> status,
                   drive_metrics |-> r.drive_metrics, registered_at |-> now_s,
                   last_heartbeat |-> now_s, online |-> TRUE],
        heap |-> r.heap]

\* A NodeEntry::update_status that allocates a new block for every drive.
NodeEntry_update_status_fresh_blocks(h, entry, status, now_s) ==
    LET r == InsertBlocks([drive_metrics |-> NoDriveMetrics, heap |-> h],
                          status.drives, FALSE)
    IN [entry |-> [entry EXCEPT !.drive_metrics = r.drive_metrics,
                                !.status = status,
                                !.last_heartbeat = now_s],
        heap |-> r.heap]

\* NodeEntry::update_status -> [entry, heap]
NodeEntry_update_status(h, entry, status, now_s) ==
    LET r == InsertBlocks([drive_metrics |-> entry.drive_metrics, heap |-> h],
                          status.drives, TRUE)
        current_ids == {status.drives[i] : i \in 1 .. Len(status.drives)}
    IN [entry |-> [entry EXCEPT
                     !.drive_metrics = [d \in DOMAIN r.drive_metrics \cap current_ids |->
                                           r.drive_metrics[d]],
                     !.status = status,
                     !.last_heartbeat = now_s],
        heap |-> r.heap]

NodeEntry_heartbeat(entry, now_s) ==
    [entry EXCEPT !.last_heartbeat = now_s, !.online = TRUE]

NodeEntry_mark_offline(entry) == [entry EXCEPT !.online = FALSE]

\* NodeEntry::get_drive_metrics -> the Arc, or None
NodeEntry_get_drive_metrics(entry, drive_id) ==
    IF drive_id \in DOMAIN entry.drive_metrics
    THEN [kind |-> "arc", block |-> entry.drive_metrics[drive_id]] ELSE None

NoNodes == [n \in {} |-> 0]

RegistryShard_new == [nodes |-> NoNodes, node_count |-> 0, update_count |-> 0]

\* A RegistryShard::insert that replaces the entry of a node id it already holds.
RegistryShard_insert_overwrites(shard, node_id, entry) ==
    [shard |-> [nodes |-> [n \in DOMAIN shard.nodes \cup {node_id} |->
                              IF n = node_id THEN entry ELSE shard.nodes[n]],
                node_count |-> WrapAdd(shard.node_count, 1),
                update_count |-> WrapAdd(shard.update_count, 1)],
     ret |-> "Ok"]

\* RegistryShard::insert -> [shard, ret]
RegistryShard_insert(shard, node_id, entry) ==
    IF node_id \in DOMAIN shard.nodes
    THEN [shard |-> shard, ret |-> "NodeAlreadyRegistered"]
    ELSE [shard |-> [nodes |-> [n \in DOMAIN shard.nodes \cup {node_id} |->
                                   IF n = node_id THEN entry ELSE shard.nodes[n]],
                     node_count |-> WrapAdd(shard.node_count, 1),
                     update_count |-> WrapAdd(shard.update_count, 1)],
          ret |-> "Ok"]

\* RegistryShard::get -> a clone of the entry, or None
RegistryShard_get(shard, node_id) ==
    IF node_id \in DOMAIN shard.nodes THEN shard.nodes[node_id] ELSE None

\* RegistryShard::update_status -> [shard, heap, ret]
RegistryShard_update_status(shard, h, node_id, status, now_s) ==
    IF node_id \in DOMAIN shard.nodes
    THEN LET u == NodeEntry_update_status(h, shard.nodes[node_id], status, now_s)
         IN [shard |-> [shard EXCEPT !.nodes[node_id] = u.entry,
                                     !.update_count = WrapAdd(@, 1)],
             heap |-> u.heap, ret |-> "Ok"]
    ELSE [shard |-> shard, heap |-> h, ret |-> "NodeNotFound"]

\* RegistryShard::heartbeat -> [shard, ret]
RegistryShard_heartbeat(shard, node_id, now_s) ==
    IF node_id \in DOMAIN shard.nodes
    THEN [shard |-> [shard EXCEPT !.nodes[node_id] = NodeEntry_heartbeat(@, now_s)],
          ret |-> "Ok"]
    ELSE [shard |-> shard, ret |-> "NodeNotFound"]

\* RegistryShard::remove whose node_count is left as it was.
RegistryShard_remove_keeps_count(shard, node_id) ==
    IF node_id \in DOMAIN shard.nodes
    THEN [shard |-> [shard EXCEPT !.nodes = [n \in DOMAIN shard.nodes \ {node_id} |->
                                                shard.nodes[n]]],
          ret |-> shard.nodes[node_id]]
    ELSE [shard |-> shard, ret |-> None]

\* RegistryShard::remove -> [shard, ret]; ret is the removed entry or None
RegistryShard_remove(shard, node_id) ==
    IF node_id \in DOMAIN shard.nodes
    THEN [shard |-> [shard EXCEPT !.nodes = [n \in DOMAIN shard.nodes \ {node_id} |->
                                                shard.nodes[n]],
                                  !.node_count = WrapSub(@, 1)],
          ret |-> shard.nodes[node_id]]
    ELSE [shard |-> shard, ret |-> None]

\* The test of RegistryShard::mark_stale_offline on one entry.
IsStale(entry, max_heartbeat_age_secs, now_s) ==
    /\ entry.online
    /\ now_s - entry.last_heartbeat > as_i64(max_heartbeat_age_secs)

\* RegistryShard::mark_stale_offline -> [shard, ret]; ret is the count
RegistryShard_mark_stale_offline(shard, max_heartbeat_age_secs, now_s) ==
    [shard |-> [shard EXCEPT !.nodes =
                   [n \in DOMAIN shard.nodes |->
                       IF IsStale(shard.nodes[n], max_heartbeat_age_secs, now_s)
                       THEN NodeEntry_mark_offline(shard.nodes[n])
                       ELSE shard.nodes[n]]],
     ret |-> Cardinality({n \in DOMAIN shard.nodes :
                             IsStale(shard.nodes[n], max_heartbeat_age_secs, now_s)})]

GlobalStats_default ==
    [total_nodes |-> 0, online_nodes |-> 0, total_drives |-> 0,
     total_capacity_bytes |-> 0, available_capacity_bytes |-> 0,
     registrations |-> 0, deregistrations |-> 0]

\* NodeRegistry::get, get_drive_metrics
NodeRegistry_get(node_id) == RegistryShard_get(shards[NodeId_shard_index(node_id)], node_id)

NodeRegistry_get_drive_metrics(node_id, drive_id) ==
    IF NodeRegistry_get(node_id) = None THEN None
    ELSE NodeEntry_get_drive_metrics(NodeRegistry_get(node_id), drive_id)

\* NodeRegistry::stats
stats == global_stats

\* NodeRegistry::shard_stats, the node_count column
shard_node_count(s) == shards[s].node_count

\* ------------------------------------------------------------------------
\* Locks and await points (local.rs, persistent.rs, lru.rs, node_registry.rs,
\* prefetch.rs)
\* ------------------------------------------------------------------------

\* The locks: one RwLock per LRU shard and per registry shard, the RwLock of
\* the L2 index and of the L3 store, the tokio Mutex of the prefetch queue.
LruShardLock(s) == [lock |-> "lru_shard", n |-> s]

RegistryShardLock(s) == [lock |-> "registry_shard", n |-> s]

L2IndexLock == [lock |-> "l2_index", n |-> 0]

L3StoreLock == [lock |-> "l3_store", n |-> 0]

PrefetchQueueLock == [lock |-> "prefetch_queue", n |-> 0]

\* Only the LRU shards some key maps to are kept.
LruShardIds == {shard_index(k) : k \in Keys}

\* What a thread does next: take a guard, drop a guard, await a file-system call.
Lock(l, mode) == [i |-> "lock", lock |-> l, mode |-> mode]

Unlock(l) == [i |-> "unlock", lock |-> l]

Io(call) == [i |-> "io", call |-> call]

\* `let g = lock.write(); ...; drop(g)` with no await in between.
Locked(l, mode) == <<Lock(l, mode), Unlock(l)>>

RECURSIVE Repeat(_, _)
Repeat(prog, n) == IF n = 0 THEN <<>> ELSE prog \o Repeat(prog, n - 1)

RECURSIVE LockEach(_, _, _)
\* `for shard in shards { let g = shard.read(); ... }`: one guard at a time.
LockEach(name, ids, mode) ==
    IF ids = {} THEN <<>>
    ELSE LET s == CHOOSE x \in ids : \A y \in ids : x <= y
         IN Locked([lock |-> name, n |-> s], mode) \o LockEach(name, ids \ {s}, mode)

\* LocalStorage::rebuild_index over a root directory whose one shard directory
\* holds `files` entries (a .meta file and its data file each): the write
\* guard is taken first and dropped after the scan.
LocalStorage_rebuild_index_steps(files) ==
    <<Lock(L2IndexLock, "write"), Io("fs::read_dir")>>
    \o (IF files = 0 THEN <<>>
        ELSE <<Io("next_entry"), Io("fs::read_dir")>>
             \o Repeat(<<Io("next_entry"), Io("fs::read_to_string"), Io("fs::metadata"),
                         Io("next_entry")>>, files)
             \o <<Io("next_entry")>>)
    \o <<Io("next_entry"), Unlock(L2IndexLock)>>

\* LocalStorage::with_config
LocalStorage_with_config_steps(files) ==
    <<Io("fs::create_dir_all")>> \o LocalStorage_rebuild_index_steps(files)

\* LocalStorage::get; the access-time write is spawned as a task of its own.
LocalStorage_get_steps(indexed) ==
    Locked(L2IndexLock, "read")
    \o (IF indexed THEN <<Io("fs::read_to_string"), Io("fs::read")>> ELSE <<>>)

LocalStorage_touch_steps == <<Io("fs::write")>>

\* LocalStorage::put
LocalStorage_put_steps(indexed, sync_writes) ==
    <<Io("fs::create_dir_all")>>
    \o Locked(L2IndexLock, "read")
    \o (IF indexed THEN <<Io("fs::metadata")>> ELSE <<>>)
    \o <<Io("File::create"), Io("write_all")>>
    \o (IF sync_writes THEN <<Io("sync_all")>> ELSE <<>>)
    \o <<Io("fs::write")>>
    \o Locked(L2IndexLock, "write")

\* LocalStorage::delete
LocalStorage_delete_steps(indexed) ==
    Locked(L2IndexLock, "write")
    \o (IF indexed
        THEN <<Io("fs::read_to_string"), Io("fs::read"), Io("fs::metadata"),
               Io("fs::remove_file"), Io("fs::remove_file")>>
        ELSE <<>>)

\* LocalStorage::contains and LocalStorage::keys
LocalStorage_contains_steps == Locked(L2IndexLock, "read")

\* LocalStorage::clear
LocalStorage_clear_steps(files) ==
    Locked(L2IndexLock, "write")
    \o Repeat(<<Io("fs::remove_file"), Io("fs::remove_file")>>, files)

\* LocalStorage::health_check
LocalStorage_health_check_steps == <<Io("fs::write"), Io("fs::remove_file")>>

\* PersistentStorage::get: the read guard, then the write guard of the access
\* update.
PersistentStorage_get_steps(stored) ==
    Locked(L3StoreLock, "read")
    \o (IF stored THEN Locked(L3StoreLock, "write") ELSE <<>>)

\* PersistentStorage::put, delete and clear
PersistentStorage_write_steps == Locked(L3StoreLock, "write")

\* PersistentStorage::contains and keys
PersistentStorage_read_steps == Locked(L3StoreLock, "read")

\* LruTracker::track, access and remove
LruTracker_write_steps(key) == Locked(LruShardLock(shard_index(key)), "write")

\* LruTracker::get_eviction_candidates, tier_entry_count and tier_bytes
LruTracker_scan_steps ==
    LockEach("lru_shard", LruShardIds, "read")

\* LruTracker::clear and clear_tier
LruTracker_clear_steps ==
    LockEach("lru_shard", LruShardIds, "write")

\* RegistryShard::insert, update_status, heartbeat and remove
RegistryShard_write_steps(node_id) ==
    Locked(RegistryShardLock(NodeId_shard_index(node_id)), "write")

\* RegistryShard::get
RegistryShard_read_steps(node_id) ==
    Locked(RegistryShardLock(NodeId_shard_index(node_id)), "read")

\* NodeRegistry::mark_stale_offline
NodeRegistry_scan_steps ==
    LockEach("registry_shard", RegistryShardIds, "write")

\* Prefetcher::submit, next_batch, queue_size, has_pending and clear
Prefetcher_queue_steps == Locked(PrefetchQueueLock, "mutex")

\* The operations of the running process: the L2 backend's need the storage
\* that with_config returns.
LockOps ==
    {[op |-> "LocalStorage::get", l2 |-> TRUE, prog |-> LocalStorage_get_steps(i)] :
        i \in BOOLEAN}
    \cup {[op |-> "LocalStorage::put", l2 |-> TRUE, prog |-> LocalStorage_put_steps(i, s)] :
            i \in BOOLEAN, s \in BOOLEAN}
    \cup {[op |-> "LocalStorage::delete", l2 |-> TRUE, prog |-> LocalStorage_delete_steps(i)] :
            i \in BOOLEAN}
    \cup {[op |-> "LocalStorage::clear", l2 |-> TRUE, prog |-> LocalStorage_clear_steps(f)] :
            f \in 0 .. MaxFiles}
    \cup {[op |-> "LocalStorage::contains", l2 |-> TRUE, prog |-> LocalStorage_contains_steps],
          [op |-> "LocalStorage::health_check", l2 |-> TRUE,
           prog |-> LocalStorage_health_check_steps],
          [op |-> "LocalStorage::get (spawned)", l2 |-> TRUE, prog |-> LocalStorage_touch_steps]}
    \cup {[op |-> "PersistentStorage::get", l2 |-> FALSE, prog |-> PersistentStorage_get_steps(i)] :
            i \in BOOLEAN}
    \cup {[op |-> "PersistentStorage::put", l2 |-> FALSE, prog |-> PersistentStorage_write_steps],
          [op |-> "PersistentStorage::contains", l2 |-> FALSE,
           prog |-> PersistentStorage_read_steps]}
    \cup {[op |-> "LruTracker::track", l2 |-> FALSE, prog |-> LruTracker_write_steps(k)] :
            k \in Keys}
    \cup {[op |-> "LruTracker::get_eviction_candidates", l2 |-> FALSE,
           prog |-> LruTracker_scan_steps],
          [op |-> "LruTracker::clear", l2 |-> FALSE, prog |-> LruTracker_clear_steps]}
    \cup {[op |-> "RegistryShard::insert", l2 |-> FALSE, prog |-> RegistryShard_write_steps(n)] :
            n \in NodeIds}
    \cup {[op |-> "RegistryShard::get", l2 |-> FALSE, prog |-> RegistryShard_read_steps(n)] :
            n \in NodeIds}
    \cup {[op |-> "NodeRegistry::mark_stale_offline", l2 |-> FALSE,
           prog |-> NodeRegistry_scan_steps],
          [op |-> "Prefetcher::submit", l2 |-> FALSE, prog |-> Prefetcher_queue_steps]}

Threads == 1 .. NumThreads

IdleThread == [op |-> "idle", prog |-> <<>>, pc |-> 1, held |-> {}, at_io |-> FALSE]

\* ------------------------------------------------------------------------
\* Prefetcher (cache/prefetch.rs)
\* ------------------------------------------------------------------------

\* PrefetchConfig (prefetch.rs 15-40), with the queue bound set small, as a
\* caller may; max_concurrent and target_tier are read by no code.
PrefetchConfig_default == [enabled |-> TRUE, max_queue_size |-> MaxQueueSize]

PrefetchConfigs ==
    {[enabled |-> e, max_queue_size |-> m] : e \in BOOLEAN, m \in 0 .. MaxQueueSize}

\* PrefetchRequest::new, high_priority and with_priority (prefetch.rs 57-78).
Priorities == {0, 5, 255}

\* Key lists a caller asks for; Manager::prefetch never submits an empty one.
KeyLists ==
    {ks \in UNION {[1 .. n -> Keys] : n \in 1 .. MaxRequestKeys} :
        \A i, j \in DOMAIN ks : i < j => ks[i] < ks[j]}

\* A request; id is its rank in submission order, by which a run tells two
\* requests with the same keys and priority apart.
PrefetchRequest(id, keys, priority) ==
    [id |-> id, keys |-> keys, priority |-> priority]

PrefetchStats_new ==
    [requests |-> 0, keys_requested |-> 0, keys_loaded |-> 0, keys_cached |-> 0,
     keys_failed |-> 0, bytes_loaded |-> 0, in_flight |-> 0]

\* Prefetcher::new (prefetch.rs 171-184); spinning is set when a submit holds
\* the queue's mutex in a loop that never ends.
Prefetcher_new(config) ==
    [config |-> config, queue |-> <<>>, stats |-> PrefetchStats_new,
     spinning |-> FALSE]

Pending == [kind |-> "Pending"]

\* A variant of the overflow loop that stops one request later.
DropFront_above(queue, max) ==
    IF Len(queue) > max THEN SubSeq(queue, Len(queue) - max + 1, Len(queue))
    ELSE queue

\* while queue.len() >= max_queue_size { queue.pop_front(); } for a bound of
\* at least one (prefetch.rs 199-205).
DropFront(queue, max) ==
    IF Len(queue) >= max THEN SubSeq(queue, Len(queue) - max + 2, Len(queue))
    ELSE queue

\* A variant of the insert position that passes over no equal priority.
InsertPosition_before_equal(queue, request) ==
    LET lower == {i \in DOMAIN queue : queue[i].priority <= request.priority}
    IN  IF lower = {} THEN Len(queue) + 1
        ELSE CHOOSE i \in lower : \A j \in lower : i <= j

\* queue.iter().position(|r| r.priority < request.priority)
\*     .unwrap_or(queue.len())   (prefetch.rs 207-211), counted from one.
InsertPosition(queue, request) ==
    LET lower == {i \in DOMAIN queue : queue[i].priority < request.priority}
    IN  IF lower = {} THEN Len(queue) + 1
        ELSE CHOOSE i \in lower : \A j \in lower : i <= j

\* VecDeque::insert(pos, request).
VecDeque_insert(queue, pos, request) ==
    SubSeq(queue, 1, pos - 1) \o <<request>> \o SubSeq(queue, pos, Len(queue))

\* A variant of submit that counts the request before it reads `enabled`.
Prefetcher_submit_counts_first(p, request) ==
    LET counted == [p EXCEPT
                      !.stats.requests = WrapAdd(@, 1),
                      !.stats.keys_requested = WrapAdd(@, Len(request.keys))]
    IN  IF ~p.config.enabled THEN [p |-> counted, ret |-> Ok(TRUE)]
        ELSE LET kept == DropFront(p.queue, p.config.max_queue_size)
             IN  [p |-> [counted EXCEPT !.queue =
                            VecDeque_insert(kept, InsertPosition(kept, request),
                                            request)],
                  ret |-> Ok(TRUE)]

\* Prefetcher::submit (prefetch.rs 187-215). With a bound of zero the loop
\* pops an empty queue for ever and the call never returns; a call that
\* finds the mutex so held waits for ever at lock().await.
Prefetcher_submit(p, request) ==
    IF ~p.config.enabled THEN [p |-> p, ret |-> Ok(TRUE)]
    ELSE
        LET counted == [p EXCEPT
                          !.stats.requests = WrapAdd(@, 1),
                          !.stats.keys_requested = WrapAdd(@, Len(request.keys))]
        IN  IF counted.spinning THEN [p |-> counted, ret |-> Pending]
            ELSE IF counted.config.max_queue_size = 0
            THEN [p |-> [counted EXCEPT !.spinning = TRUE], ret |-> Pending]
            ELSE
                LET kept == DropFront(counted.queue, counted.config.max_queue_size)
                    pos == InsertPosition(kept, request)
                IN  [p |-> [counted EXCEPT
                              !.queue = VecDeque_insert(kept, pos, request)],
                     ret |-> Ok(TRUE)]

\* The requests next_batch pops: from the front, while the keys gathered
\* are fewer than max_keys (prefetch.rs 222-229).
RECURSIVE PoppedCount(_, _, _)
PoppedCount(queue, max_keys, gathered) ==
    IF gathered < max_keys /\ queue /= <<>>
    THEN 1 + PoppedCount(Tail(queue), max_keys, gathered + Len(queue[1].keys))
    ELSE 0

RECURSIVE KeysOf(_)
KeysOf(requests) ==
    IF requests = <<>> THEN <<>>
    ELSE requests[1].keys \o KeysOf(Tail(requests))

\* Vec::truncate(max_keys).
Vec_truncate(keys, max_keys) ==
    IF Len(keys) > max_keys THEN SubSeq(keys, 1, max_keys) ELSE keys

\* Prefetcher::next_batch (prefetch.rs 218-233).
Prefetcher_next_batch(p, max_keys) ==
    LET n == PoppedCount(p.queue, max_keys, 0)
        popped == SubSeq(p.queue, 1, n)
    IN  [p |-> [p EXCEPT !.queue = SubSeq(p.queue, n + 1, Len(p.queue))],
         ret |-> Vec_truncate(KeysOf(popped), max_keys)]

\* Prefetcher::clear (prefetch.rs 287-289).
Prefetcher_clear(p) == [p EXCEPT !.queue = <<>>]

\* No L2 call is in flight and no write-back is pending.
L2Ops_new == [put |-> [pc |-> "idle"], del |-> [pc |-> "idle"], touch |-> {}]

\* No request has been queued, dropped or handed out.
PrefetchHistory_new == [next_id |-> 1, dropped |-> {}, handed |-> {}, taken |-> {}]

\* ------------------------------------------------------------------------
\* Specification
\* ------------------------------------------------------------------------

\* Byte counts a caller passes to evict.
EvictAmounts == {L1_MAX_SIZE_BYTES}

Init ==
    /\ l1 = MemoryStorage_new
    /\ l2 = LocalStorage_new
    /\ l3 = PersistentStorage_new
    /\ lru = ShardedLruTracker_new
    /\ metrics = [t \in CacheTier |-> CacheTierMetrics_new]
    /\ emitted = <<>>
    /\ trace = <<>>
    /\ result = [op |-> "new"]
    /\ last_put = [k \in Keys |-> "unset"]
    /\ now = 0
    /\ overflow_checks = FALSE
    /\ fallback_on_failure = CompressionConfig.fallback_on_failure
    /\ shards = [s \in RegistryShardIds |-> RegistryShard_new]
    /\ global_stats = GlobalStats_default
    /\ event_sender = <<>>
    /\ heap = <<>>
    /\ inflight = {}
    /\ reg_result = [id |-> 0, op |-> "new"]
    /\ calls = 0
    /\ clock = 0
    /\ tasks = [evict |-> [pc |-> "idle"], get |-> [pc |-> "idle"]]
    /\ threads = [t \in Threads |-> IdleThread]
    /\ booted = TRUE
    /\ prefetcher = Prefetcher_new(PrefetchConfig_default)
    /\ prefetch_history = PrefetchHistory_new
    /\ l2ops = L2Ops_new

\* The state after `call` took the world to r.w and returned r.ret.
Returns(r, call) ==
    /\ l1' = r.w.l1
    /\ l2' = r.w.l2
    /\ l3' = r.w.l3
    /\ lru' = r.w.lru
    /\ metrics' = r.w.metrics
    /\ emitted' = r.w.emitted
    /\ trace' = r.w.trace
    /\ result' = [call EXCEPT !.ret = r.ret]
    /\ last_put' = IF call.op \in {"put", "put_with_tier"} /\ r.ret.kind = "Ok"
                   THEN [last_put EXCEPT ![call.key] = call.payload.id]
                   ELSE last_put
    /\ now' = now + 1
    /\ UNCHANGED <<overflow_checks, fallback_on_failure, registryVars, tasks, lockVars, prefetchVars, diskVars>>

Put(key, payload) ==
    /\ now < MaxCalls
    /\ Returns(put(World, key, payload, now + 1),
               [op |-> "put", key |-> key, payload |-> payload, ret |-> None])

PutWithTier(key, payload, tier) ==
    /\ now < MaxCalls
    /\ Returns(put_with_tier(World, key, payload, tier, now + 1),
               [op |-> "put_with_tier", key |-> key, payload |-> payload,
                tier |-> tier, ret |-> None])

Get(key) ==
    /\ now < MaxCalls
    /\ Returns(get(World, key, now + 1), [op |-> "get", key |-> key, ret |-> None])

Delete(key) ==
    /\ now < MaxCalls
    /\ Returns(delete(World, key), [op |-> "delete", key |-> key, ret |-> None])

\* What evict returns to its caller: Ok(freed).
EvictResult(r) == [w |-> r.w, ret |-> IF r.w.panicked THEN Panicked ELSE Ok(r.freed)]

Evict(tier, bytes_to_free) ==
    /\ now < MaxCalls
    /\ Returns(EvictResult(evict(World, tier, bytes_to_free, now + 1)),
               [op |-> "evict", tier |-> tier, bytes_to_free |-> bytes_to_free,
                ret |-> None])

ClearTier(tier) ==
    /\ now < MaxCalls
    /\ Returns(clear_tier(World, tier), [op |-> "clear_tier", tier |-> tier, ret |-> None])

\* PersistentStorage::set_available: the L3 backend goes away or comes back.
SetAvailable(available) ==
    /\ now < MaxCalls
    /\ l3.available # available
    /\ Returns([w |-> [World EXCEPT !.l3.available = available], ret |-> Ok(TRUE)],
               [op |-> "set_available", available |-> available, ret |-> None])

Next ==
    \/ \E key \in Keys, payload \in Payloads : Put(key, payload)
    \/ \E key \in Keys, payload \in Payloads, tier \in CacheTier :
           PutWithTier(key, payload, tier)
    \/ \E key \in Keys : Get(key)
    \/ \E key \in Keys : Delete(key)
    \/ \E tier \in CacheTier, bytes_to_free \in EvictAmounts : Evict(tier, bytes_to_free)
    \/ \E tier \in CacheTier : ClearTier(tier)
    \/ \E available \in BOOLEAN : SetAvailable(available)

Spec == Init /\ [][Next]_vars

\* ------------------------------------------------------------------------
\* Observables of a state
\* ------------------------------------------------------------------------

\* TierStorage::keys of the tier's backend, as a set.
BackendKeys(tier) == {k \in Keys : Holds(World, tier, k)}

\* The length of what the tier's backend holds for key (0 when nothing).
HeldSize(tier, k) ==
    CASE tier = L1Memory ->
           IF IsSome(l1.entries[k]) THEN stored_size(l1.entries[k]) ELSE 0
      [] tier = L2Local ->
           IF k \in l2.index /\ IsFile(l2.data[k]) THEN l2.data[k].bytes.len ELSE 0
      [] tier = L3Persistent ->
           IF IsSome(l3.store[k]) THEN stored_size(l3.store[k]) ELSE 0

RECURSIVE SumHeld(_, _)
SumHeld(tier, ks) ==
    IF ks = {} THEN 0
    ELSE LET k == CHOOSE x \in ks : TRUE
         IN HeldSize(tier, k) + SumHeld(tier, ks \ {k})

\* Sum of the stored sizes of the entries the tier's backend holds.
BackendBytes(tier) == SumHeld(tier, BackendKeys(tier))

\* The keys whose tracker record is tagged with the tier.
LruKeys(tier) == {k \in Keys : LruTierOf(lru, k) = tier}

\* The tiers whose backend holds key.
HoldingTiers(key) == {t \in CacheTier : Holds(World, t, key)}

\* The events of the latest call of the given type for key.
EventsFor(type, key) ==
    {i \in 1 .. Len(emitted) : emitted[i].type = type /\ emitted[i].key = key}

\* ------------------------------------------------------------------------
\* Claims
\* ------------------------------------------------------------------------

\* C2: for every tier the metric block agrees with the backend: bytes_stored
\* is the sum of the stored sizes of the entries the backend holds and
\* entry_count is the number of entries it holds.
C2_MetricsMatchBackends ==
    \A t \in CacheTier :
        /\ metrics[t].bytes_stored = BackendBytes(t)
        /\ metrics[t].entry_count = Cardinality(BackendKeys(t))

\* C3: between calls, for every tier the keys whose tracker record carries
\* the tier are exactly the keys the tier's backend holds.
C3_LruMatchesBackends ==
    \A t \in CacheTier : LruKeys(t) = BackendKeys(t)

\* C5: put_with_tier of data longer than the tier's max_object_size returns
\* an error and leaves the backends, the tracker and the metrics as they were.
C5_OversizedPutRefused ==
    [][(/\ result'.op = "put_with_tier"
        /\ result'.payload.len > max_object_size(result'.tier))
       => (/\ result'.ret = Failed
           /\ UNCHANGED <<l1, l2, l3, lru, metrics>>)]_vars

\* C10: every backend's own counters agree with what it holds: size_bytes()
\* is the sum of the stored sizes and entry_count() the number of keys.
C10_BackendAccounting ==
    \A t \in CacheTier :
        /\ storage_size_bytes(World, t) = BackendBytes(t)
        /\ storage_entry_count(World, t) = Cardinality(BackendKeys(t))

\* C1: a get of k right after put(k, b) returned Ok is a Hit whose data is b.
C1_PutThenGetReturnsBytes ==
    [][(/\ result.op = "put"
        /\ result.ret.kind = "Ok"
        /\ result'.op = "get"
        /\ result'.key = result.key)
       => (/\ result'.ret.kind = "Hit"
           /\ result'.ret.data = RawBytes(result.payload))]_vars

\* Whether bytes_stored = n is above the eviction watermark of the tier.
AboveWatermark(tier, n) == n > eviction_watermark(tier_config(tier))

\* C4: every ensure_capacity(T, needed) entered with bytes_stored(T) above
\* the watermark of T returns with bytes_stored(T) at or below it.
C4_EnsureCapacityReachesWatermark ==
    \A i \in 1 .. Len(trace) :
        (/\ trace[i].call = "ensure_capacity"
         /\ AboveWatermark(trace[i].tier, trace[i].before))
        => ~AboveWatermark(trace[i].tier, trace[i].after)

\* C6: at every point of a demotion of k from T to the demotion target of T
\* at most one of the two backends holds k, and once the demotion has
\* succeeded the target's backend holds k and T's does not.
C6_DemotionIsMove ==
    \A i \in 1 .. Len(trace) :
        trace[i].call = "hop"
        => /\ ~(trace[i].in_from /\ trace[i].in_to)
           /\ trace[i].phase = "stored" => (trace[i].in_to /\ ~trace[i].in_from)

\* A put met capacity pressure in L1 and a demotion to L2 went through while
\* L2 already held an older copy of the key.
C6_Witness ==
    /\ result.op \in {"put", "put_with_tier"}
    /\ \E i \in 1 .. Len(trace), j \in 1 .. Len(trace) :
         /\ trace[i].call = "hop" /\ trace[j].call = "hop"
         /\ trace[i].key = trace[j].key
         /\ trace[i].from = L1Memory /\ trace[j].from = L1Memory
         /\ trace[i].phase = "deleted" /\ trace[i].in_to
         /\ trace[j].phase = "stored"

\* The latest call was a put whose capacity check on L1 demoted k to L2,
\* where it now lives.
DemotedByPressure(k) ==
    /\ result.op \in {"put", "put_with_tier"}
    /\ \E i \in EventsFor("Demote", k) :
         emitted[i].from_tier = L1Memory /\ emitted[i].to_tier = L2Local
    /\ k \notin BackendKeys(L1Memory)
    /\ k \in BackendKeys(L2Local)

\* C7: the get of k that follows its demotion from L1 to L2 under capacity
\* pressure is Hit{tier = L2, promoted = true} with the bytes last put for k,
\* and the get of k right after such a hit is Hit{tier = L1, promoted =
\* false} with the same bytes.
C7_DemotedKeyPromotedOnGet ==
    [][/\ (/\ result'.op = "get"
           /\ DemotedByPressure(result'.key))
          => result'.ret = Hit(RawBytes(PayloadOf(last_put[result'.key])),
                               L2Local, TRUE)
       /\ (/\ result.op = "get"
           /\ result.ret.kind = "Hit"
           /\ result.ret.tier = L2Local
           /\ result.ret.promoted
           /\ result'.op = "get"
           /\ result'.key = result.key)
          => result'.ret = Hit(result.ret.data, L1Memory, FALSE)]_vars

\* C8: delete(k) returns true iff some backend held k; afterwards no backend
\* holds k, the tracker has no record of k and one Delete event went out per
\* tier that held k; a delete(k) right after a delete(k) returns false and
\* changes nothing.
C8_DeleteRemovesEverywhere ==
    [][\A k \in Keys :
         (result'.op = "delete" /\ result'.key = k)
         => /\ result'.ret = Ok(HoldingTiers(k) # {})
            /\ HoldingTiers(k)' = {}
            /\ LruTierOf(lru', k) = NoTier
            /\ \A t \in CacheTier :
                 Cardinality({i \in 1 .. Len(emitted') :
                                /\ emitted'[i].type = "Delete"
                                /\ emitted'[i].key = k
                                /\ emitted'[i].tier = t})
                 = IF t \in HoldingTiers(k) THEN 1 ELSE 0
            /\ (result.op = "delete" /\ result.key = k)
               => (/\ result'.ret = Ok(FALSE)
                   /\ UNCHANGED <<l1, l2, l3, lru, metrics>>)]_vars

\* The tracker's record of key (None when it has none).
LruRecordOf(t, key) ==
    IF ShardHas(t.shards[shard_index(key)], key)
    THEN ShardEntry(t.shards[shard_index(key)], key)
    ELSE None

\* The latest step was a put of some kind whose backend put failed: the
\* persistent tier was the target and was unavailable.
BackendPutFailed ==
    /\ result'.op \in {"put", "put_with_tier"}
    /\ result'.ret = Failed
    /\ ~l3.available
    /\ IF result'.op = "put"
       THEN for_size(result'.payload.len) = L3Persistent
       ELSE result'.tier = L3Persistent

MaxAges == {0, 1, U64 - 1}

\* A registry call starts: it takes the next call id.
Starts ==
    /\ calls < MaxRegistryCalls
    /\ calls' = calls + 1

\* A registry call returns r to its caller.
RegistryReturns(r) == reg_result' = r

InFlight(c) == inflight' = inflight \cup {c}

Landed(c) == inflight' = inflight \ {c}

\* register up to the `?` after shards[shard_idx].insert.
RegisterInsert(node_id, hostname, status) ==
    LET shard_idx == NodeId_shard_index(node_id)
        e == NodeEntry_new(heap, node_id, hostname, status, clock)
        i == RegistryShard_insert(shards[shard_idx], node_id, e.entry)
    IN /\ Starts
       /\ Cardinality(inflight) < MaxInflight
       /\ IF i.ret # "Ok"
          THEN /\ RegistryReturns([id |-> calls + 1, op |-> "register",
                                   node_id |-> node_id, ret |-> i.ret])
               /\ UNCHANGED <<shards, heap, inflight>>
          ELSE /\ shards' = [shards EXCEPT ![shard_idx] = i.shard]
               /\ heap' = e.heap
               /\ InFlight([id |-> calls + 1, op |-> "register", node_id |-> node_id,
                            hostname |-> hostname,
                            drive_count |-> Len(e.entry.status.drives),
                            capacity |-> e.entry.status.total_capacity_bytes,
                            available |-> e.entry.status.available_capacity_bytes])
               /\ UNCHANGED reg_result
       /\ UNCHANGED <<global_stats, event_sender, clock, cacheVars, tasks, lockVars, prefetchVars, diskVars>>

\* register from "Update global stats" on.
RegisterPublish(c) ==
    /\ c.op = "register"
    /\ global_stats' =
          [global_stats EXCEPT
             !.total_nodes = WrapAdd(@, 1),
             !.online_nodes = WrapAdd(@, 1),
             !.total_drives = WrapAdd(@, c.drive_count),
             !.total_capacity_bytes = WrapAdd(@, c.capacity),
             !.available_capacity_bytes = WrapAdd(@, c.available),
             !.registrations = WrapAdd(@, 1)]
    /\ event_sender' = Append(event_sender,
                              [type |-> "NodeRegistered", node_id |-> c.node_id,
                               hostname |-> c.hostname, drive_count |-> c.drive_count])
    /\ Landed(c)
    /\ RegistryReturns([id |-> c.id, op |-> "register", node_id |-> c.node_id,
                        ret |-> "Ok"])
    /\ UNCHANGED <<shards, heap, calls, clock, cacheVars, tasks, lockVars, prefetchVars, diskVars>>

\* deregister up to the return of shards[shard_idx].remove.
DeregisterRemove(node_id) ==
    LET shard_idx == NodeId_shard_index(node_id)
        r == RegistryShard_remove(shards[shard_idx], node_id)
    IN /\ Starts
       /\ Cardinality(inflight) < MaxInflight
       /\ IF r.ret = None
          THEN /\ RegistryReturns([id |-> calls + 1, op |-> "deregister",
                                   node_id |-> node_id, ret |-> "NodeNotFound"])
               /\ UNCHANGED <<shards, inflight>>
          ELSE /\ shards' = [shards EXCEPT ![shard_idx] = r.shard]
               /\ InFlight([id |-> calls + 1, op |-> "deregister", node_id |-> node_id,
                            drive_count |-> Len(r.ret.status.drives),
                            capacity |-> r.ret.status.total_capacity_bytes,
                            available |-> r.ret.status.available_capacity_bytes,
                            online |-> r.ret.online])
               /\ UNCHANGED reg_result
       /\ UNCHANGED <<global_stats, event_sender, heap, clock, cacheVars, tasks, lockVars, prefetchVars, diskVars>>

\* deregister from "Update global stats" on.
DeregisterPublish(c) ==
    /\ c.op = "deregister"
    /\ global_stats' =
          [global_stats EXCEPT
             !.total_nodes = WrapSub(@, 1),
             !.online_nodes = IF c.online THEN WrapSub(@, 1) ELSE @,
             !.total_drives = WrapSub(@, c.drive_count),
             !.total_capacity_bytes = WrapSub(@, c.capacity),
             !.available_capacity_bytes = WrapSub(@, c.available),
             !.deregistrations = WrapAdd(@, 1)]
    /\ event_sender' = Append(event_sender,
                              [type |-> "NodeDeregistered", node_id |-> c.node_id])
    /\ Landed(c)
    /\ RegistryReturns([id |-> c.id, op |-> "deregister", node_id |-> c.node_id,
                        ret |-> "Ok"])
    /\ UNCHANGED <<shards, heap, calls, clock, cacheVars, tasks, lockVars, prefetchVars, diskVars>>

\* NodeRegistry::update_status
UpdateStatus(node_id, status) ==
    LET shard_idx == NodeId_shard_index(node_id)
        u == RegistryShard_update_status(shards[shard_idx], heap, node_id, status, clock)
    IN /\ Starts
       /\ shards' = [shards EXCEPT ![shard_idx] = u.shard]
       /\ heap' = u.heap
       /\ event_sender' = IF u.ret = "Ok"
                          THEN Append(event_sender,
                                      [type |-> "NodeUpdated", node_id |-> node_id])
                          ELSE event_sender
       /\ RegistryReturns([id |-> calls + 1, op |-> "update_status",
                           node_id |-> node_id, ret |-> u.ret])
       /\ UNCHANGED <<global_stats, inflight, clock, cacheVars, tasks, lockVars, prefetchVars, diskVars>>

\* NodeRegistry::heartbeat
Heartbeat(node_id) ==
    LET shard_idx == NodeId_shard_index(node_id)
        h == RegistryShard_heartbeat(shards[shard_idx], node_id, clock)
    IN /\ Starts
       /\ shards' = [shards EXCEPT ![shard_idx] = h.shard]
       /\ RegistryReturns([id |-> calls + 1, op |-> "heartbeat",
                           node_id |-> node_id, ret |-> h.ret])
       /\ UNCHANGED <<global_stats, event_sender, heap, inflight, clock, cacheVars, tasks, lockVars, prefetchVars, diskVars>>

RECURSIVE SumCounts(_, _)
SumCounts(f, S) ==
    IF S = {} THEN 0
    ELSE LET x == CHOOSE y \in S : TRUE IN f[x] + SumCounts(f, S \ {x})

\* mark_stale_offline: the loop over the shards.
MarkStaleScan(max_heartbeat_age_secs) ==
    LET scanned == [s \in RegistryShardIds |->
                       RegistryShard_mark_stale_offline(shards[s],
                                                        max_heartbeat_age_secs, clock)]
        total == SumCounts([s \in RegistryShardIds |-> scanned[s].ret], RegistryShardIds)
    IN /\ Starts
       /\ Cardinality(inflight) < MaxInflight
       /\ shards' = [s \in RegistryShardIds |-> scanned[s].shard]
       /\ InFlight([id |-> calls + 1, op |-> "mark_stale_offline",
                    max_heartbeat_age_secs |-> max_heartbeat_age_secs,
                    total |-> total])
       /\ UNCHANGED <<global_stats, event_sender, heap, reg_result, clock, cacheVars, tasks, lockVars, prefetchVars, diskVars>>

\* mark_stale_offline from `if total > 0` on.
MarkStalePublish(c) ==
    /\ c.op = "mark_stale_offline"
    /\ global_stats' = IF c.total > 0
                       THEN [global_stats EXCEPT !.online_nodes = WrapSub(@, c.total)]
                       ELSE global_stats
    /\ Landed(c)
    /\ RegistryReturns([id |-> c.id, op |-> "mark_stale_offline",
                        max_heartbeat_age_secs |-> c.max_heartbeat_age_secs,
                        ret |-> "usize", total |-> c.total])
    /\ UNCHANGED <<shards, event_sender, heap, calls, clock, cacheVars, tasks, lockVars, prefetchVars, diskVars>>

\* update_drive_metrics up to the return of get_drive_metrics: the caller
\* holds a clone of the Arc, and no lock.
UpdateDriveMetricsLookup(node_id, drive_id, sample) ==
    LET found == NodeRegistry_get_drive_metrics(node_id, drive_id)
    IN /\ Starts
       /\ Cardinality(inflight) < MaxInflight
       /\ IF found = None
          THEN /\ RegistryReturns([id |-> calls + 1, op |-> "update_drive_metrics",
                                   node_id |-> node_id, drive_id |-> drive_id,
                                   sample |-> sample, ret |-> "DeviceNotFound"])
               /\ UNCHANGED inflight
          ELSE /\ InFlight([id |-> calls + 1, op |-> "update_drive_metrics",
                            node_id |-> node_id, drive_id |-> drive_id,
                            sample |-> sample, metrics |-> found.block])
               /\ UNCHANGED reg_result
       /\ UNCHANGED <<shards, global_stats, event_sender, heap, clock, cacheVars, tasks, lockVars, prefetchVars, diskVars>>

\* update_drive_metrics from metrics.update on.
UpdateDriveMetricsStore(c) ==
    /\ c.op = "update_drive_metrics"
    /\ heap' = [heap EXCEPT ![c.metrics] =
                   DriveMetrics_update(@, c.sample.iops, c.sample.wear_level_percent,
                                       clock)]
    /\ Landed(c)
    /\ RegistryReturns([id |-> c.id, op |-> "update_drive_metrics",
                        node_id |-> c.node_id, drive_id |-> c.drive_id,
                        sample |-> c.sample, ret |-> "Ok"])
    /\ UNCHANGED <<shards, global_stats, event_sender, calls, clock, cacheVars, tasks, lockVars, prefetchVars, diskVars>>

\* Time passes.
Tick ==
    /\ clock < MaxClock
    /\ clock' = clock + 1
    /\ UNCHANGED <<shards, global_stats, event_sender, heap, inflight, reg_result,
                   calls, cacheVars, tasks, lockVars, prefetchVars, diskVars>>

RegistryNext ==
    \/ \E node_id \in NodeIds, hostname \in Hostnames, status \in Statuses :
           RegisterInsert(node_id, hostname, status)
    \/ \E c \in inflight : RegisterPublish(c)
    \/ \E node_id \in NodeIds : DeregisterRemove(node_id)
    \/ \E c \in inflight : DeregisterPublish(c)
    \/ \E node_id \in NodeIds, status \in Statuses : UpdateStatus(node_id, status)
    \/ \E node_id \in NodeIds : Heartbeat(node_id)
    \/ \E m \in MaxAges : MarkStaleScan(m)
    \/ \E c \in inflight : MarkStalePublish(c)
    \/ \E node_id \in NodeIds, drive_id \in DriveIds, sample \in Samples :
           UpdateDriveMetricsLookup(node_id, drive_id, sample)
    \/ \E c \in inflight : UpdateDriveMetricsStore(c)
    \/ Tick

SpecRegistry == Init /\ [][RegistryNext]_vars

\* ------------------------------------------------------------------------
\* Observables of the registry
\* ------------------------------------------------------------------------

RegisteredNodes ==
    {n \in NodeIds : n \in DOMAIN shards[NodeId_shard_index(n)].nodes}

EntryOf(n) == shards[NodeId_shard_index(n)].nodes[n]

\* The call that started last: it has returned, or it is in flight.
StartedCall == CHOOSE c \in inflight \cup {reg_result} : c.id = calls

\* No call is between its part under the shard lock and its part on the
\* global counters.
RegistryQuiescent == \A c \in inflight : c.op = "update_drive_metrics"

DriveIdsOf(status) == {status.drives[i] : i \in 1 .. Len(status.drives)}

\* ------------------------------------------------------------------------
\* Properties of the registry
\* ------------------------------------------------------------------------

\* C11: register of a node id that is present returns NodeAlreadyRegistered,
\* and deregister of a node id that is absent returns NodeNotFound; either
\* call leaves the shards (entries and shard statistics), the global
\* statistics and the event stream as they were.
C11_DuplicateAndMissingRejected ==
    [][\A n \in NodeIds :
          /\ (calls' # calls /\ StartedCall'.op = "register"
              /\ StartedCall'.node_id = n /\ n \in RegisteredNodes)
             => /\ reg_result' = [id |-> calls', op |-> "register", node_id |-> n,
                                  ret |-> "NodeAlreadyRegistered"]
                /\ UNCHANGED <<shards, global_stats, event_sender>>
          /\ (calls' # calls /\ StartedCall'.op = "deregister"
              /\ StartedCall'.node_id = n /\ n \notin RegisteredNodes)
             => /\ reg_result' = [id |-> calls', op |-> "deregister", node_id |-> n,
                                  ret |-> "NodeNotFound"]
                /\ UNCHANGED <<shards, global_stats, event_sender>>]_vars

\* A second register of a registered node has just been refused.
C11_Witness ==
    /\ reg_result.op = "register"
    /\ reg_result.ret = "NodeAlreadyRegistered"
    /\ reg_result.node_id \in RegisteredNodes
    /\ global_stats.registrations = 1

\* C12: whenever no call is half done, online_nodes is the number of
\* registered entries whose online flag is set.
C12_OnlineNodesMatchFlags ==
    RegistryQuiescent =>
        global_stats.online_nodes =
            Cardinality({n \in RegisteredNodes : EntryOf(n).online})

\* C13: whenever no call is half done, total_drives, total_capacity_bytes
\* and available_capacity_bytes are the sums over the registered nodes of the
\* number of drives and of the two capacity fields of their current status.
C13_DriveAndCapacityTotals ==
    RegistryQuiescent =>
        /\ global_stats.total_drives =
              SumCounts([n \in RegisteredNodes |-> Len(EntryOf(n).status.drives)],
                        RegisteredNodes)
        /\ global_stats.total_capacity_bytes =
              SumCounts([n \in RegisteredNodes |-> EntryOf(n).status.total_capacity_bytes],
                        RegisteredNodes)
        /\ global_stats.available_capacity_bytes =
              SumCounts([n \in RegisteredNodes |->
                            EntryOf(n).status.available_capacity_bytes],
                        RegisteredNodes)

\* C14: whenever no call is half done, total_nodes is the number of entries
\* held across the shards, is registrations minus deregistrations, and is the
\* sum of the node_count of the shards.
C14_TotalNodesMatchEntries ==
    RegistryQuiescent =>
        /\ global_stats.total_nodes = Cardinality(RegisteredNodes)
        /\ global_stats.total_nodes =
              WrapSub(global_stats.registrations, global_stats.deregistrations)
        /\ global_stats.total_nodes =
              SumCounts([s \in RegistryShardIds |-> shard_node_count(s)],
                        RegistryShardIds)

\* A node is registered after another was registered and deregistered.
C14_Witness ==
    /\ RegistryQuiescent
    /\ global_stats.deregistrations = 1
    /\ Cardinality(RegisteredNodes) = 1

\* C15: after every step the drive_metrics keys of every registered node are
\* the drive ids of its status, and an update_status keeps, for each drive that
\* is present before and after, the same block with the same values.
C15_DriveMetricsFollowStatus ==
    [][/\ \A n \in RegisteredNodes' :
             DOMAIN EntryOf(n)'.drive_metrics = DriveIdsOf(EntryOf(n)'.status)
       /\ \A n \in RegisteredNodes :
             (calls' # calls /\ StartedCall'.op = "update_status"
              /\ StartedCall'.node_id = n)
             => \A d \in DOMAIN EntryOf(n).drive_metrics
                          \cap DriveIdsOf(EntryOf(n)'.status) :
                    /\ EntryOf(n)'.drive_metrics[d] = EntryOf(n).drive_metrics[d]
                    /\ heap'[EntryOf(n)'.drive_metrics[d]]
                           = heap[EntryOf(n).drive_metrics[d]]]_vars

\* An update_status has added a drive to a node whose first drive had
\* metrics written before.
C15_Witness ==
    /\ reg_result.op = "update_status"
    /\ reg_result.ret = "Ok"
    /\ reg_result.node_id \in RegisteredNodes
    /\ DOMAIN EntryOf(reg_result.node_id).drive_metrics = DriveIds
    /\ get_iops(heap[EntryOf(reg_result.node_id).drive_metrics["d1"]]) # 0
    /\ get_iops(heap[EntryOf(reg_result.node_id).drive_metrics["d2"]]) = 0

\* C16: the online flag of a registered node goes from true to false only in
\* the scan of mark_stale_offline(m) and only if its last heartbeat is more
\* than m seconds old, and from false to true only in heartbeat; the scan of
\* mark_stale_offline(m) flips every online entry older than m, counts the
\* entries it flipped, leaves total_nodes and every other entry as they were,
\* and leaves no entry a repeated call would flip.
C16_OnlineFlagTransitions ==
    [][\A n \in RegisteredNodes \cap RegisteredNodes' :
          /\ (EntryOf(n).online /\ ~EntryOf(n)'.online)
             => /\ calls' # calls
                /\ StartedCall'.op = "mark_stale_offline"
                /\ clock - EntryOf(n).last_heartbeat
                       > StartedCall'.max_heartbeat_age_secs
          /\ (~EntryOf(n).online /\ EntryOf(n)'.online)
             => /\ calls' # calls
                /\ StartedCall'.op = "heartbeat"
                /\ StartedCall'.node_id = n
          /\ (calls' # calls /\ StartedCall'.op = "mark_stale_offline")
             => /\ (EntryOf(n).online
                    /\ clock - EntryOf(n).last_heartbeat
                           > StartedCall'.max_heartbeat_age_secs)
                   => ~EntryOf(n)'.online
                /\ StartedCall'.total =
                      Cardinality({x \in RegisteredNodes :
                                      EntryOf(x).online /\ ~EntryOf(x)'.online})
                /\ EntryOf(n)' = [EntryOf(n) EXCEPT !.online = EntryOf(n)'.online]
                /\ RegisteredNodes' = RegisteredNodes
                /\ global_stats'.total_nodes = global_stats.total_nodes
                /\ ~(EntryOf(n)'.online
                     /\ clock' - EntryOf(n)'.last_heartbeat
                            > StartedCall'.max_heartbeat_age_secs)]_vars

\* C19: when update_drive_metrics returns Ok for (n, d), the drive is
\* registered at that moment and the block registered for it holds the
\* written values.
C19_UpdateReachesRegisteredBlock ==
    [][\A c \in inflight :
          (c.op = "update_drive_metrics" /\ c \notin inflight'
           /\ reg_result'.id = c.id /\ reg_result'.ret = "Ok")
          => /\ NodeRegistry_get_drive_metrics(c.node_id, c.drive_id)' # None
             /\ get_iops(heap'[NodeRegistry_get_drive_metrics(c.node_id,
                                                              c.drive_id)'.block])
                    = c.sample.iops
             /\ get_wear_level_percent(
                    heap'[NodeRegistry_get_drive_metrics(c.node_id,
                                                         c.drive_id)'.block])
                    = c.sample.wear_level_percent]_vars

\* ------------------------------------------------------------------------
\* Specification of a get that runs while an evict demotes.  evict and get
\* are futures: each `.await` on a backend is a point where the other task
\* may run.  evict is suspended between storage.delete on the evicted tier
\* and demote; get is suspended between its lookups.  Keys are put while no
\* task is suspended, each key once.
\* ------------------------------------------------------------------------

Idle == [pc |-> "idle"]

\* The state after a task ran up to its next await and left the world w.
Suspends(w) ==
    /\ l1' = w.l1
    /\ l2' = w.l2
    /\ l3' = w.l3
    /\ lru' = w.lru
    /\ metrics' = w.metrics
    /\ emitted' = w.emitted
    /\ trace' = w.trace
    /\ UNCHANGED <<last_put, overflow_checks, fallback_on_failure, registryVars, lockVars, prefetchVars, diskVars>>

\* The evict task holds the entry of key: deleted from its tier, not yet
\* put into the demotion target.
MidDemotion(key) ==
    /\ tasks.evict.pc = "demote"
    /\ tasks.evict.entry.key = key
    /\ tier_config(tasks.evict.tier).enable_demotion

\* The get task after a step of the evict task left the world w: the get is
\* racing once the evict has moved its key.
Overlapped(g, w) ==
    IF g.pc = "lookup" /\ {t \in CacheTier : Holds(w, t, g.key)} # HoldingTiers(g.key)
    THEN [g EXCEPT !.racing = TRUE]
    ELSE g

RacePut(key, payload) ==
    /\ tasks.evict = Idle
    /\ tasks.get = Idle
    /\ last_put[key] = "unset"
    /\ Put(key, payload)

\* evict up to its loop: the candidates are collected.
EvictBegin(tier, bytes_to_free) ==
    /\ now < MaxCalls
    /\ tasks.evict = Idle
    /\ tasks' = [tasks EXCEPT !.evict =
                    [pc |-> "delete", tier |-> tier, bytes_to_free |-> bytes_to_free,
                     candidates |-> ShardedLruTracker_get_eviction_candidates(
                                        lru, tier, bytes_to_free, now + 1),
                     freed |-> 0, now_s |-> now + 1]]
    /\ now' = now + 1
    /\ UNCHANGED <<l1, l2, l3, lru, metrics, emitted, trace, result, last_put,
                   overflow_checks, fallback_on_failure, registryVars, lockVars, prefetchVars, diskVars>>

\* evict: the head of an iteration up to the return of storage.delete, or the
\* return of evict when the loop ends.
EvictDelete ==
    LET t == tasks.evict
        d == storage_delete(World, t.tier, Head(t.candidates).key)
    IN /\ t.pc = "delete"
       /\ IF t.candidates = <<>> \/ t.freed >= t.bytes_to_free
          THEN /\ tasks' = [tasks EXCEPT !.evict = Idle]
               /\ result' = [op |-> "evict", tier |-> t.tier,
                             bytes_to_free |-> t.bytes_to_free, ret |-> Ok(t.freed)]
               /\ UNCHANGED <<l1, l2, l3, lru, metrics, emitted, trace, last_put,
                              overflow_checks, fallback_on_failure, registryVars, lockVars, prefetchVars, diskVars>>
          ELSE /\ Suspends(d.w)
               /\ tasks' =
                     [evict |-> IF IsSome(d.ret)
                                THEN [t EXCEPT !.pc = "demote"] @@ [entry |-> d.ret]
                                ELSE [t EXCEPT !.candidates = Tail(@)],
                      get |-> Overlapped(tasks.get, d.w)]
               /\ UNCHANGED result
       /\ UNCHANGED now

\* evict: the rest of the iteration, from the deleted entry on (demote, the
\* metrics of the evicted tier, the event).
EvictDemote ==
    LET t == tasks.evict
        r == EvictDeleted([w |-> World, ret |-> t.entry], t.tier, Head(t.candidates),
                          t.freed, t.now_s)
    IN /\ t.pc = "demote"
       /\ Suspends(r.w)
       /\ tasks' = [evict |-> [pc |-> "delete", tier |-> t.tier,
                                bytes_to_free |-> t.bytes_to_free,
                                candidates |-> Tail(t.candidates),
                                freed |-> r.freed, now_s |-> t.now_s],
                     get |-> Overlapped(tasks.get, r.w)]
       /\ UNCHANGED <<result, now>>

\* get up to its loop.  held: the tiers that hold the key, or that it is on
\* its way out of; racing: an evict has the key in hand during this get.
GetBegin(key) ==
    /\ now < MaxCalls
    /\ tasks.get = Idle
    /\ tasks' = [tasks EXCEPT !.get =
                    [pc |-> "lookup", key |-> key, i |-> 1, now_s |-> now + 1,
                     held |-> HoldingTiers(key)
                                  \cup IF MidDemotion(key) THEN {tasks.evict.tier} ELSE {},
                     racing |-> MidDemotion(key)]]
    /\ now' = now + 1
    /\ UNCHANGED <<l1, l2, l3, lru, metrics, emitted, trace, result, last_put,
                   overflow_checks, fallback_on_failure, registryVars, lockVars, prefetchVars, diskVars>>

\* get: one iteration of the loop over lookup_order; on a hit, the rest of
\* the call.
GetLookup ==
    LET t == tasks.get
        tier == lookup_order[t.i]
        r == storage_get(World, tier, t.key, t.now_s)
        hit == GetHit(r.w, t.key, tier, r.ret, t.now_s)
        call == [op |-> "get", key |-> t.key, held |-> t.held, racing |-> t.racing]
    IN /\ t.pc = "lookup"
       /\ IF IsSome(r.ret)
          THEN /\ Suspends(hit.w)
               /\ result' = call @@ [ret |-> hit.ret]
               /\ tasks' = [tasks EXCEPT !.get = Idle]
          ELSE IF t.i = Len(lookup_order)
          THEN /\ Suspends(emit_event(
                      IF r.ret = None
                      THEN [r.w EXCEPT !.metrics[tier] = record_miss(@)] ELSE r.w,
                      [type |-> "Miss", key |-> t.key]))
               /\ result' = call @@ [ret |-> Miss]
               /\ tasks' = [tasks EXCEPT !.get = Idle]
          ELSE /\ Suspends(IF r.ret = None
                           THEN [r.w EXCEPT !.metrics[tier] = record_miss(@)] ELSE r.w)
               /\ tasks' = [tasks EXCEPT !.get.i = @ + 1]
               /\ UNCHANGED result
       /\ UNCHANGED now

RaceNext ==
    \/ \E key \in Keys, payload \in Payloads : RacePut(key, payload)
    \/ \E tier \in CacheTier, bytes_to_free \in EvictAmounts :
           EvictBegin(tier, bytes_to_free)
    \/ EvictDelete
    \/ EvictDemote
    \/ \E key \in Keys : GetBegin(key)
    \/ GetLookup

SpecRace == Init /\ [][RaceNext]_vars

\* C17: a get of a key some tier held when the get started returns Hit with
\* the key's bytes also while an evict is demoting the key: it returns Miss
\* only if no tier holds the key and no demotion has it in hand.  A get that
\* no demotion of its key overlaps returns Hit from a tier that held the key
\* when the get started (after a completed demotion: the target tier).
C17_GetDuringDemotion ==
    [][(tasks.get.pc = "lookup" /\ tasks'.get = Idle /\ tasks.get.held # {})
       => /\ result'.ret = Miss
             => (HoldingTiers(tasks.get.key) = {} /\ ~MidDemotion(tasks.get.key))
          /\ result'.ret.kind = "Hit"
             => result'.ret.data = RawBytes(PayloadOf(last_put[tasks.get.key]))
          /\ ~tasks.get.racing
             => (result'.ret.kind = "Hit" /\ result'.ret.tier \in tasks.get.held)]_vars

\* ------------------------------------------------------------------------
\* Specification of gets whose future the caller drops
\* ------------------------------------------------------------------------

\* get(key), dropped at the n-th await that suspends it.
GetCancelled(key, n) ==
    /\ now < MaxCalls
    /\ get([World EXCEPT !.drop_at = n], key, now + 1).ret = Cancelled
    /\ Returns(get([World EXCEPT !.drop_at = n], key, now + 1),
               [op |-> "get", key |-> key, drop_at |-> n, ret |-> None])

CancelNext ==
    \/ \E key \in Keys, payload \in Payloads : Put(key, payload)
    \/ \E key \in Keys : Get(key)
    \/ \E key \in Keys, n \in 1 .. MaxAwaits : GetCancelled(key, n)

SpecCancel == Init /\ [][CancelNext]_vars

\* C18: a get whose future is dropped at a suspension point leaves the
\* tracker and the metrics in step with the backends: if, before the get,
\* every tier's tracker keys were the keys its backend holds and its
\* bytes_stored and entry_count matched the backend, they still are and do
\* afterwards.
C18_CancelledGetLeavesNoPartialState ==
    [][(/\ result'.op = "get"
        /\ result'.ret = Cancelled
        /\ C3_LruMatchesBackends
        /\ C2_MetricsMatchBackends)
       => (C3_LruMatchesBackends' /\ C2_MetricsMatchBackends')]_vars

\* ------------------------------------------------------------------------
\* Lock discipline: threads running the operations step by step
\* ------------------------------------------------------------------------

Instr(t) == threads[t].prog[threads[t].pc]

Running(t) == threads[t].op # "idle" /\ threads[t].pc <= Len(threads[t].prog)

\* Another thread's guard that keeps this thread from taking l in `mode`.
Blocked(t, l, mode) ==
    \E u \in Threads \ {t} : \E g \in threads[u].held :
        g.lock = l /\ (mode # "read" \/ g.mode # "read")

LockFrame == UNCHANGED <<cacheVars, registryVars, tasks, prefetchVars, diskVars>>

\* Process start: LocalStorage::with_config runs before anything else does.
Startup(t, files) ==
    /\ \A u \in Threads : threads[u] = IdleThread
    /\ threads' = [threads EXCEPT ![t] =
                      [op |-> "LocalStorage::with_config",
                       prog |-> LocalStorage_with_config_steps(files),
                       pc |-> 1, held |-> {}, at_io |-> FALSE]]
    /\ booted' = FALSE
    /\ LockFrame

\* A thread starts an operation.
Call(t, o) ==
    /\ threads[t] = IdleThread
    /\ o.l2 => booted
    /\ threads' = [threads EXCEPT ![t] =
                      [op |-> o.op, prog |-> o.prog, pc |-> 1, held |-> {},
                       at_io |-> FALSE]]
    /\ UNCHANGED booted
    /\ LockFrame

\* lock.read(), lock.write(), mutex.lock().await
Acquire(t) ==
    /\ Running(t)
    /\ Instr(t).i = "lock"
    /\ ~Blocked(t, Instr(t).lock, Instr(t).mode)
    /\ threads' = [threads EXCEPT ![t].held = @ \cup {[lock |-> Instr(t).lock,
                                                       mode |-> Instr(t).mode]},
                                  ![t].pc = @ + 1]
    /\ UNCHANGED booted
    /\ LockFrame

\* The guard goes out of scope or is dropped.
Release(t) ==
    /\ Running(t)
    /\ Instr(t).i = "unlock"
    /\ threads' = [threads EXCEPT ![t].held = {g \in @ : g.lock # Instr(t).lock},
                                  ![t].pc = @ + 1]
    /\ UNCHANGED booted
    /\ LockFrame

\* The task reaches a file-system `.await` and is suspended there.
SuspendIo(t) ==
    /\ Running(t)
    /\ Instr(t).i = "io"
    /\ ~threads[t].at_io
    /\ threads' = [threads EXCEPT ![t].at_io = TRUE]
    /\ UNCHANGED booted
    /\ LockFrame

\* The file-system call completes and the task goes on.
ResumeIo(t) ==
    /\ threads[t].at_io
    /\ threads' = [threads EXCEPT ![t].at_io = FALSE, ![t].pc = @ + 1]
    /\ UNCHANGED booted
    /\ LockFrame

\* The operation returns.
Finish(t) ==
    /\ threads[t].op # "idle"
    /\ threads[t].pc > Len(threads[t].prog)
    /\ threads' = [threads EXCEPT ![t] = IdleThread]
    /\ booted' = (booted \/ threads[t].op = "LocalStorage::with_config")
    /\ LockFrame

LockNext ==
    \/ \E t \in Threads, files \in 0 .. MaxFiles : Startup(t, files)
    \/ \E t \in Threads, o \in LockOps : Call(t, o)
    \/ \E t \in Threads : Acquire(t)
    \/ \E t \in Threads : Release(t)
    \/ \E t \in Threads : SuspendIo(t)
    \/ \E t \in Threads : ResumeIo(t)
    \/ \E t \in Threads : Finish(t)

SpecLocks == Init /\ [][LockNext]_vars

\* C20: no thread is suspended at a file-system await while it holds an LRU
\* shard lock, a registry shard lock, the L2 index lock, the L3 store lock or
\* the prefetch queue mutex, in the backend operations and in the index
\* rebuild of start-up alike.
C20_NoLockHeldAcrossIoAwait ==
    \A t \in Threads : threads[t].at_io => threads[t].held = {}

\* ------------------------------------------------------------------------
\* Placement by size: put with objects on the thresholds
\* ------------------------------------------------------------------------

PlacementNext ==
    \/ \E key \in Keys, payload \in Payloads \cup BoundaryPayloads : Put(key, payload)
    \/ \E key \in Keys : Delete(key)
    \/ \E available \in BOOLEAN : SetAvailable(available)

SpecPlacement == Init /\ [][PlacementNext]_vars

\* The tier the size rule names for an object of s MiB.
PlacedTier(s) ==
    IF s <= 100 THEN L1Memory ELSE IF s <= 1024 THEN L2Local ELSE L3Persistent

\* The content the tier's backend holds for key ("nothing" when it holds none).
StoredPayload(tier, k) ==
    CASE tier = L1Memory ->
           IF IsSome(l1.entries[k]) THEN l1.entries[k].data.bytes.id ELSE "nothing"
      [] tier = L2Local ->
           IF k \in l2.index /\ IsFile(l2.data[k]) THEN l2.data[k].bytes.id ELSE "nothing"
      [] tier = L3Persistent ->
           IF IsSome(l3.store[k]) THEN l3.store[k].data.bytes.id ELSE "nothing"

BackendOf(tier) ==
    CASE tier = L1Memory -> l1
      [] tier = L2Local -> l2
      [] tier = L3Persistent -> l3

\* What a second clear_tier(tier) would leave, started in this state.
ClearedAgain(tier) == clear_tier(World, tier).w

\* C22: a clear_tier(T) that returns Ok leaves T's backend empty, no tracker
\* record tagged T and T's bytes_stored and entry_count at 0; T's hits, misses,
\* evictions and demotions, and every other tier's backend, tracker records
\* and counters are as before; a second clear_tier(T) changes nothing.
C22_ClearTierEffect ==
    [][\A T \in CacheTier :
         (/\ now' = now + 1
          /\ result'.op = "clear_tier"
          /\ result'.tier = T
          /\ result'.ret.kind = "Ok")
         => /\ BackendKeys(T)' = {}
            /\ BackendOf(T)'.size_bytes = 0
            /\ BackendOf(T)'.entry_count = 0
            /\ LruKeys(T)' = {}
            /\ metrics'[T] = [metrics[T] EXCEPT !.bytes_stored = 0, !.entry_count = 0]
            /\ \A t \in CacheTier \ {T} :
                   /\ BackendOf(t)' = BackendOf(t)
                   /\ metrics'[t] = metrics[t]
            /\ \A k \in Keys :
                   LruTierOf(lru, k) # T => LruRecordOf(lru', k) = LruRecordOf(lru, k)
            /\ ClearedAgain(T)'.l1 = l1'
            /\ ClearedAgain(T)'.l2 = l2'
            /\ ClearedAgain(T)'.l3 = l3'
            /\ ClearedAgain(T)'.lru = lru'
            /\ ClearedAgain(T)'.metrics = metrics']_vars

\* A clear_tier returned Ok that removed entries from a tier with recorded
\* hits, while another tier holds a key.
C22_Witness ==
    /\ result.op = "clear_tier"
    /\ result.ret.kind = "Ok"
    /\ emitted[Len(emitted)].type = "TierCleared"
    /\ emitted[Len(emitted)].entries_removed > 0
    /\ metrics[result.tier].hits > 0
    /\ \E t \in CacheTier \ {result.tier} : BackendKeys(t) # {}

\* ------------------------------------------------------------------------
\* Lookup with a failing tier
\* ------------------------------------------------------------------------

\* C23: a get while the persistent backend is unavailable (its get returns
\* an error) does not fail: it returns Hit when L1 or L2 holds the key and
\* Ok(Miss) otherwise, and the persistent backend is left as it was.
C23_LookupSurvivesTierFailure ==
    [][\A k \in Keys :
         (now' = now + 1 /\ result'.op = "get" /\ result'.key = k /\ ~l3.available)
         => /\ l3' = l3
            /\ IF HoldingTiers(k) \ {L3Persistent} # {}
               THEN result'.ret.kind = "Hit"
               ELSE result'.ret = Miss]_vars

\* A get returned Miss for a key that only the unavailable persistent backend
\* holds.
C23_Witness ==
    /\ result.op = "get"
    /\ result.ret = Miss
    /\ ~l3.available
    /\ HoldingTiers(result.key) = {L3Persistent}

\* ------------------------------------------------------------------------
\* The backends called directly (CacheStorage), with the persistent backend
\* going away and coming back
\* ------------------------------------------------------------------------

\* The entry a caller hands to a backend's put.
BackendEntry(key, payload, tier) ==
    CacheEntry_new(key, CacheData_uncompressed(RawBytes(payload)), tier, now + 1)

BackendGet(tier, key) ==
    /\ now < MaxCalls
    /\ Returns(storage_get(World, tier, key, now + 1),
               [op |-> "storage.get", tier |-> tier, key |-> key, ret |-> None])

BackendPut(tier, key, payload) ==
    /\ now < MaxCalls
    /\ Returns(storage_put(World, tier, BackendEntry(key, payload, tier)),
               [op |-> "storage.put", tier |-> tier, key |-> key, ret |-> None])

BackendDelete(tier, key) ==
    /\ now < MaxCalls
    /\ Returns(storage_delete(World, tier, key),
               [op |-> "storage.delete", tier |-> tier, key |-> key, ret |-> None])

BackendClear(tier) ==
    /\ now < MaxCalls
    /\ Returns(storage_clear(World, tier),
               [op |-> "storage.clear", tier |-> tier, ret |-> None])

\* contains, keys and health_check of the persistent backend.
PersistentRead(op, r) ==
    /\ now < MaxCalls
    /\ Returns([w |-> [World EXCEPT !.l3 = r.b], ret |-> r.ret],
               [op |-> op, tier |-> L3Persistent, ret |-> None])

BackendNext ==
    \/ \E tier \in CacheTier, key \in Keys : BackendGet(tier, key)
    \/ \E tier \in CacheTier, key \in Keys, payload \in Payloads :
           BackendPut(tier, key, payload)
    \/ \E tier \in CacheTier, key \in Keys : BackendDelete(tier, key)
    \/ \E tier \in CacheTier : BackendClear(tier)
    \/ \E key \in Keys :
           PersistentRead("storage.contains", PersistentStorage_contains(l3, key))
    \/ PersistentRead("storage.keys", PersistentStorage_keys(l3))
    \/ PersistentRead("storage.health_check", PersistentStorage_health_check(l3))
    \/ \E available \in BOOLEAN : SetAvailable(available)

SpecBackends == Init /\ [][BackendNext]_vars

BackendOps ==
    {"storage.get", "storage.put", "storage.delete", "storage.clear",
     "storage.contains", "storage.keys", "storage.health_check"}

\* C24: while the persistent backend's available flag is false each of its
\* get, put, delete, contains, keys, clear and health_check fails with
\* BackendUnavailable and leaves its entries, size_bytes and entry_count as
\* they were; set_available keeps the stored entries, which a get returns
\* again once the flag is true; the memory and local backends never return
\* BackendUnavailable.
C24_UnavailableGatesEveryOperation ==
    [][(now' = now + 1 /\ result'.op \in BackendOps)
       => /\ (result'.tier = L3Persistent /\ ~l3.available)
             => (result'.ret = Err /\ l3' = l3)
          /\ result'.tier # L3Persistent => result'.ret # Err
          /\ (result'.tier = L3Persistent /\ l3.available /\ result'.op = "storage.get")
             => \A k \in Keys :
                   (result'.key = k /\ IsSome(l3.store[k]))
                   => /\ IsSome(result'.ret)
                      /\ result'.ret.data.bytes = l3.store[k].data.bytes]_vars

\* ------------------------------------------------------------------------
\* Puts of data the compressor fails on
\* ------------------------------------------------------------------------

\* The cache is built with the given compression.fallback_on_failure.
WithCompressionConfig(fallback) ==
    /\ result.op = "new"
    /\ fallback_on_failure' = fallback
    /\ result' = [op |-> "with_config", fallback_on_failure |-> fallback]
    /\ UNCHANGED <<l1, l2, l3, lru, metrics, emitted, trace, last_put, now,
                   overflow_checks, registryVars, tasks, lockVars, prefetchVars, diskVars>>

CompressionNext ==
    \/ \E fallback \in BOOLEAN : WithCompressionConfig(fallback)
    \/ \E key \in Keys, payload \in Payloads \cup FailingPayloads : Put(key, payload)
    \/ \E key \in Keys : Get(key)
    \/ \E key \in Keys : Delete(key)

SpecCompression == Init /\ [][CompressionNext]_vars

\* C25: a put of data on which the compressor fails, into a tier with
\* compression enabled: with fallback_on_failure it stores the original bytes
\* with algorithm none and records a CompressionFailed event; without it the
\* put returns the error and stores nothing.
C25_CompressionFailureHandled ==
    [][\A k \in Keys, p \in FailingPayloads :
         (/\ now' = now + 1
          /\ result'.op = "put" /\ result'.key = k /\ result'.payload = p
          /\ tier_config(for_size(p.len)).enable_compression)
         => IF fallback_on_failure
            THEN /\ result'.ret = Ok(for_size(p.len))
                 /\ StoredPayload(for_size(p.len), k)' = p.id
                 /\ \E i \in 1 .. Len(emitted') :
                        emitted'[i].type = "CompressionFailed" /\ emitted'[i].key = k
            ELSE /\ result'.ret = Failed
                 /\ UNCHANGED <<l1, l2, l3, lru, metrics>>]_vars


\* ------------------------------------------------------------------------
\* The prefetch queue (cache/prefetch.rs)
\* ------------------------------------------------------------------------

PrefetchFrame ==
    UNCHANGED <<l1, l2, l3, lru, metrics, emitted, trace, last_put, now,
                overflow_checks, fallback_on_failure, registryVars, tasks,
                lockVars, diskVars>>

QueuedIds(queue) == {queue[i].id : i \in DOMAIN queue}

\* The (request, key) pairs of a sequence of requests, in key order.
RECURSIVE PairsOf(_)
PairsOf(requests) ==
    IF requests = <<>> THEN <<>>
    ELSE [i \in DOMAIN requests[1].keys |->
             <<requests[1].id, requests[1].keys[i]>>] \o PairsOf(Tail(requests))

\* Prefetcher::new(config), before any other call.
WithPrefetchConfig(config) ==
    /\ result.op = "new"
    /\ prefetcher' = Prefetcher_new(config)
    /\ result' = [op |-> "Prefetcher::new", config |-> config]
    /\ UNCHANGED prefetch_history
    /\ PrefetchFrame

\* prefetcher.submit(PrefetchRequest::new(keys).with_priority(priority)).
Submit(keys, priority) ==
    /\ prefetch_history.next_id <= MaxSubmits
    /\ LET request == PrefetchRequest(prefetch_history.next_id, keys, priority)
           r == Prefetcher_submit(prefetcher, request)
       IN  /\ prefetcher' = r.p
           /\ result' = [op |-> "submit", request |-> request, ret |-> r.ret]
           /\ prefetch_history' =
                 [prefetch_history EXCEPT
                     !.next_id = @ + 1,
                     !.dropped = @ \cup (QueuedIds(prefetcher.queue)
                                           \ QueuedIds(r.p.queue))]
    /\ PrefetchFrame

\* prefetcher.next_batch(max_keys); the call waits at lock().await while a
\* submit holds the mutex.
NextBatch(max_keys) ==
    /\ ~prefetcher.spinning
    /\ LET r == Prefetcher_next_batch(prefetcher, max_keys)
           n == Len(prefetcher.queue) - Len(r.p.queue)
           popped == SubSeq(prefetcher.queue, 1, n)
           pairs == PairsOf(popped)
       IN  /\ prefetcher' = r.p
           /\ result' = [op |-> "next_batch", max_keys |-> max_keys,
                         popped |-> popped, ret |-> r.ret]
           /\ prefetch_history' =
                 [prefetch_history EXCEPT
                     !.taken = @ \cup {pairs[i] : i \in DOMAIN pairs},
                     !.handed = @ \cup {pairs[i] : i \in 1 .. Len(r.ret)}]
    /\ PrefetchFrame

\* prefetcher.clear().
Clear ==
    /\ ~prefetcher.spinning
    /\ prefetcher' = Prefetcher_clear(prefetcher)
    /\ result' = [op |-> "clear"]
    /\ UNCHANGED prefetch_history
    /\ PrefetchFrame

PrefetchNext ==
    \/ \E config \in PrefetchConfigs : WithPrefetchConfig(config)
    \/ \E keys \in KeyLists, priority \in Priorities : Submit(keys, priority)
    \/ \E max_keys \in 1 .. MaxBatchKeys : NextBatch(max_keys)
    \/ Clear

SpecPrefetch == Init /\ [][PrefetchNext]_vars

\* C26: the requests a submit drops to keep the queue within its bound are
\* the lowest-priority ones: no request the submit dropped has a strictly
\* higher priority than a request that is queued when it returns.
C26_SubmitDropsLowestPriority ==
    [][(result'.op = "submit" /\ prefetcher' /= prefetcher) =>
          \A i \in DOMAIN prefetcher.queue :
              (prefetcher.queue[i].id \notin QueuedIds(prefetcher'.queue)) =>
                  \A j \in DOMAIN prefetcher'.queue :
                      prefetcher.queue[i].priority <= prefetcher'.queue[j].priority]_vars


\* C27: after every submit that returns, in any sequence of submit,
\* next_batch and clear, the queue holds at most max_queue_size requests.
C27_QueueWithinBound ==
    Len(prefetcher.queue) <= prefetcher.config.max_queue_size

\* A submit has returned after dropping a request, and the queue is full.
C27_Witness ==
    /\ result.op = "submit"
    /\ result.ret = Ok(TRUE)
    /\ prefetch_history.dropped /= {}
    /\ Len(prefetcher.queue) = MaxQueueSize


\* Higher priority first; among equal priorities, the earlier submission first.
QueueOrdered(queue) ==
    \A i, j \in DOMAIN queue :
        i < j => \/ queue[i].priority > queue[j].priority
                 \/ /\ queue[i].priority = queue[j].priority
                    /\ queue[i].id < queue[j].id

\* For each key of a sequence of requests, the priority of its request.
RECURSIVE KeyPriorities(_)
KeyPriorities(requests) ==
    IF requests = <<>> THEN <<>>
    ELSE [i \in DOMAIN requests[1].keys |-> requests[1].priority]
             \o KeyPriorities(Tail(requests))

\* C28: the queue is always ordered by priority, highest first, requests of
\* equal priority in submission order; and next_batch returns the keys of
\* higher-priority requests before those of lower-priority ones, taking no
\* request while one of higher priority stays queued.
C28_QueueOrderedByPriority ==
    /\ [](QueueOrdered(prefetcher.queue))
    /\ [][result'.op = "next_batch" =>
            /\ \A a, b \in 1 .. Len(result'.ret) :
                  a < b => KeyPriorities(result'.popped)[a]
                              >= KeyPriorities(result'.popped)[b]
            /\ \A i \in DOMAIN result'.popped, j \in DOMAIN prefetcher'.queue :
                  result'.popped[i].priority >= prefetcher'.queue[j].priority
            /\ result'.ret = SubSeq(KeysOf(prefetcher.queue), 1, Len(result'.ret))]_vars

\* next_batch has returned the keys of two requests, the later-submitted,
\* higher-priority one first, in a run where the bound has dropped a request.
C28_Witness ==
    /\ result.op = "next_batch"
    /\ Len(result.popped) = 2
    /\ Len(result.ret) = 2
    /\ result.popped[1].id > result.popped[2].id
    /\ result.popped[1].priority > result.popped[2].priority
    /\ prefetch_history.dropped /= {}


\* C30: with enabled = false, submit returns Ok and leaves the queue and
\* every counter (requests, keys_requested, keys_loaded, keys_cached,
\* keys_failed, bytes_loaded, in_flight) as they were.
C30_DisabledSubmitIsNoOp ==
    [][(result'.op = "submit" /\ ~prefetcher.config.enabled) =>
          /\ result'.ret = Ok(TRUE)
          /\ prefetcher'.queue = prefetcher.queue
          /\ prefetcher'.stats = prefetcher.stats
          /\ prefetcher' = prefetcher]_vars

\* A submit of two keys has returned Ok from a disabled prefetcher.
C30_Witness ==
    /\ ~prefetcher.config.enabled
    /\ result.op = "submit"
    /\ result.ret = Ok(TRUE)
    /\ Len(result.request.keys) = 2
    /\ prefetcher.stats = PrefetchStats_new


\* The prefetcher with a drainer. CacheManager::prefetch submits the keys
\* (manager.rs 454-463); the code starts no task that takes them from the
\* queue, and next_batch is the only operation that hands queued keys out.
\* The specification grants the most a holder of the prefetcher can do:
\* next_batch is called again and again for as long as it has an effect.
PrefetchLiveNext ==
    \/ \E config \in PrefetchConfigs : WithPrefetchConfig(config)
    \/ \E keys \in KeyLists, priority \in Priorities : Submit(keys, priority)
    \/ \E max_keys \in 1 .. MaxBatchKeys : NextBatch(max_keys)

SpecPrefetchLive ==
    /\ Init
    /\ [][PrefetchLiveNext]_vars
    /\ WF_vars(\E max_keys \in 1 .. MaxBatchKeys : NextBatch(max_keys))

\* Request id is in the queue.
Queued(id) == id \in QueuedIds(prefetcher.queue)

\* Every key of request id has been returned by a next_batch.
HandedOut(id) ==
    \A k \in Keys :
        <<id, k>> \in prefetch_history.taken => <<id, k>> \in prefetch_history.handed

\* C29: once a submit of a non-empty key list has returned Ok from an
\* enabled prefetcher, the request is eventually taken from the queue with
\* every one of its keys handed out for loading (to be recorded as loaded,
\* found cached or failed), unless the queue bound dropped the request.
C29_QueuedKeysEventuallyProcessed ==
    \A id \in 1 .. MaxSubmits :
        [](Queued(id) =>
              <>(\/ ~Queued(id) /\ HandedOut(id) /\ id \notin prefetch_history.dropped
                 \/ id \in prefetch_history.dropped))

\* ------------------------------------------------------------------------
\* The LRU tracker on its own (cache/lru.rs)
\* ------------------------------------------------------------------------

LruFrame ==
    UNCHANGED <<l1, l2, l3, metrics, emitted, last_put, overflow_checks,
                fallback_on_failure, registryVars, tasks, lockVars, prefetchVars, diskVars>>

\* ShardedLruTracker::get_lru_candidate.
get_lru_candidate(t, tier, now_ms) ==
    LET candidates == ShardedLruTracker_get_eviction_candidates(t, tier, 1, now_ms)
    IN  IF candidates = <<>> THEN None
        ELSE [kind |-> "some", key |-> candidates[1].key]

\* tracker.track(metadata) for an entry made now: EntryMetadata::from_entry
\* of a CacheEntry whose last_accessed is Utc::now(), in milliseconds.
LruTrack(key, tier) ==
    /\ Len(trace) < MaxCalls
    /\ lru' = ShardedLruTracker_track(lru,
                 [key |-> key, size_bytes |-> 1, tier |-> tier,
                  last_accessed_ms |-> now])
    /\ trace' = Append(trace, key)
    /\ result' = [op |-> "track", key |-> key, tier |-> tier]
    /\ UNCHANGED now
    /\ LruFrame

\* tracker.access(key).
LruAccess(key) ==
    /\ Len(trace) < MaxCalls
    /\ lru' = ShardedLruTracker_access(lru, key, now)
    /\ trace' = IF LruTierOf(lru, key) = NoTier THEN trace ELSE Append(trace, key)
    /\ result' = [op |-> "access", key |-> key, ret |-> LruTierOf(lru, key) # NoTier]
    /\ UNCHANGED now
    /\ LruFrame

\* tracker.get_lru_candidate(tier).
LruCandidate(tier) ==
    /\ result' = [op |-> "get_lru_candidate", tier |-> tier,
                  ret |-> get_lru_candidate(lru, tier, now)]
    /\ UNCHANGED <<lru, trace, now>>
    /\ LruFrame

\* A millisecond passes on the clock Utc::now() reads.
LruClockTick ==
    /\ now < MaxClock
    /\ now' = now + 1
    /\ result' = [op |-> "tick"]
    /\ UNCHANGED <<lru, trace>>
    /\ LruFrame

LruNext ==
    \/ \E key \in Keys, tier \in {L1Memory, L2Local} : LruTrack(key, tier)
    \/ \E key \in Keys : LruAccess(key)
    \/ \E tier \in {L1Memory, L2Local} : LruCandidate(tier)
    \/ LruClockTick

SpecLru == Init /\ [][LruNext]_vars

\* The position in the run of the latest track or access of key.
LastTouch(key) ==
    CHOOSE i \in DOMAIN trace : trace[i] = key /\ \A j \in DOMAIN trace : trace[j] = key => j <= i

\* The key tracked in tier whose latest track or access is the oldest.
LeastRecentlyUsed(tier) ==
    CHOOSE k \in LruKeys(tier) : \A other \in LruKeys(tier) : LastTouch(k) <= LastTouch(other)

\* C31: under the Lru policy the single eviction candidate of a tier is the
\* key, among those tracked in the tier, whose most recent track or access
\* is the oldest.
C31_CandidateIsLeastRecentlyUsed ==
    (result.op = "get_lru_candidate" /\ LruKeys(result.tier) # {}) =>
        /\ result.ret # None
        /\ result.ret.key = LeastRecentlyUsed(result.tier)


\* ------------------------------------------------------------------------
\* Storage keys (cache/entry.rs)
\* ------------------------------------------------------------------------

\* Characters of the strings a key is made of; a string is a sequence.
Chars == {"a", ":", "v", "1"}

Strings == UNION {[1 .. n -> Chars] : n \in 0 .. MaxStringLen}

NoVersion == [kind |-> "none"]

SomeVersion(v) == [kind |-> "some", value |-> v]

Versions == {NoVersion, SomeVersion(1), SomeVersion(11)}

\* CacheKey { namespace, id, version } (entry.rs 19-26).
CacheKeys ==
    {[namespace |-> ns, id |-> id, version |-> v] :
        ns \in Strings, id \in Strings, v \in Versions}

DigitChars == <<"0", "1", "2", "3", "4", "5", "6", "7", "8", "9">>

\* format!("{}", v) for a u64.
RECURSIVE Decimal(_)
Decimal(n) ==
    IF n < 10 THEN <<DigitChars[n + 1]>>
    ELSE Decimal(n \div 10) \o <<DigitChars[(n % 10) + 1]>>

IsDigit(c) == \E d \in DOMAIN DigitChars : DigitChars[d] = c

DigitValue(c) == (CHOOSE d \in DOMAIN DigitChars : DigitChars[d] = c) - 1

RECURSIVE DecimalValue(_)
DecimalValue(str) ==
    IF str = <<>> THEN 0
    ELSE 10 * DecimalValue(SubSeq(str, 1, Len(str) - 1)) + DigitValue(str[Len(str)])

\* str::parse::<u64>() of the strings the formatted keys contain: digits
\* only, not empty; None for anything else.
ParseU64(str) ==
    IF str # <<>> /\ \A i \in DOMAIN str : IsDigit(str[i])
    THEN SomeVersion(DecimalValue(str))
    ELSE NoVersion

\* CacheKey::to_storage_key (entry.rs 48-53).
to_storage_key(key) ==
    IF key.version.kind = "some"
    THEN key.namespace \o <<":">> \o key.id \o <<":", "v">> \o Decimal(key.version.value)
    ELSE key.namespace \o <<":">> \o key.id

\* The position of the first ':' of str, or 0.
FirstColon(str) ==
    IF \E i \in DOMAIN str : str[i] = ":"
    THEN CHOOSE i \in DOMAIN str : str[i] = ":" /\ \A j \in 1 .. i - 1 : str[j] # ":"
    ELSE 0

\* str::splitn(3, ':').
splitn3(str) ==
    LET a == FirstColon(str)
        rest == SubSeq(str, a + 1, Len(str))
        b == FirstColon(rest)
    IN  IF a = 0 THEN <<str>>
        ELSE IF b = 0 THEN <<SubSeq(str, 1, a - 1), rest>>
        ELSE <<SubSeq(str, 1, a - 1), SubSeq(rest, 1, b - 1),
               SubSeq(rest, b + 1, Len(rest))>>

\* CacheKey::from_storage_key (entry.rs 56-74).
from_storage_key(str) ==
    LET parts == splitn3(str)
    IN  IF Len(parts) = 2
        THEN [kind |-> "some",
              key |-> [namespace |-> parts[1], id |-> parts[2], version |-> NoVersion]]
        ELSE IF Len(parts) = 3
        THEN IF parts[3] # <<>> /\ parts[3][1] = "v"
                   /\ ParseU64(Tail(parts[3])).kind = "some"
             THEN [kind |-> "some",
                   key |-> [namespace |-> parts[1], id |-> parts[2],
                            version |-> ParseU64(Tail(parts[3]))]]
             ELSE None
        ELSE None

AllFrame ==
    UNCHANGED <<l1, l2, l3, lru, metrics, emitted, trace, last_put, now,
                overflow_checks, fallback_on_failure, registryVars, tasks,
                lockVars, prefetchVars, diskVars>>

\* CacheKey::from_storage_key(&key.to_storage_key()).
StorageKeyRoundTrip(key) ==
    /\ result' = [op |-> "from_storage_key", key |-> key,
                  storage_key |-> to_storage_key(key),
                  ret |-> from_storage_key(to_storage_key(key))]
    /\ AllFrame

StorageKeyNext == \E key \in CacheKeys : StorageKeyRoundTrip(key)

SpecStorageKey == Init /\ [][StorageKeyNext]_vars

\* C32: for every CacheKey k, from_storage_key(to_storage_key(k)) = Some(k),
\* and no other key has the storage key of k.
C32_StorageKeyRoundTrip ==
    result.op = "from_storage_key" =>
        /\ result.ret = [kind |-> "some", key |-> result.key]
        /\ \A other \in CacheKeys :
              other # result.key => to_storage_key(other) # result.storage_key


\* The hops of the given phase that the latest call logged.
HopsOf(log, phase) ==
    {i \in DOMAIN log : log[i].call = "hop" /\ log[i].phase = phase}

\* The events of the given type that the latest call emitted.
EventsOfType(events, type) == {i \in DOMAIN events : events[i].type = type}

\* C33: an evict that demotes exactly one entry, of stored size s, from
\* tier T to its target adds 1 to T.demotions, takes 1 from T.entry_count
\* and s from T.bytes_stored, adds 1 to the target's entry_count and s to
\* its bytes_stored, emits exactly one Demote event and no Evict event, and
\* leaves the key in the tracker tagged with the target tier.
C33_DemotionAccounting ==
    [][\A T \in {L1Memory, L2Local}, k \in Keys :
         (/\ result'.op = "evict"
          /\ result'.tier = T
          /\ Cardinality(HopsOf(trace', "deleted")) = 1
          /\ Cardinality(HopsOf(trace', "stored")) = 1
          /\ \E i \in HopsOf(trace', "stored") :
                trace'[i].key = k /\ trace'[i].from = T)
         => /\ metrics'[T].demotions = WrapAdd(metrics[T].demotions, 1)
            /\ metrics'[T].entry_count = WrapSub(metrics[T].entry_count, 1)
            /\ metrics'[T].bytes_stored
                  = WrapSub(metrics[T].bytes_stored, HeldSize(T, k))
            /\ metrics'[demotion_target(T)].entry_count
                  = WrapAdd(metrics[demotion_target(T)].entry_count, 1)
            /\ metrics'[demotion_target(T)].bytes_stored
                  = WrapAdd(metrics[demotion_target(T)].bytes_stored, HeldSize(T, k))
            /\ Cardinality(EventsOfType(emitted', "Demote")) = 1
            /\ EventsOfType(emitted', "Evict") = {}
            /\ LruTierOf(lru', k) = demotion_target(T)]_vars


\* The call returned an error to its caller.
Surfaced(ret) == ret.kind \notin {"Ok", "Hit", "Miss"}

\* C34: an entry that an evict, or the evict inside a put, takes out of a
\* tier with enable_demotion and a demotion target is put into the target
\* tier's backend by that call, or the call returns the failure of the
\* demotion; and no Evict event records the entry as evicted from that tier
\* for capacity.
C34_EvictedEntryNotDroppedSilently ==
    [][\A T \in {L1Memory, L2Local}, k \in Keys :
         (/\ result'.op \in {"evict", "put", "put_with_tier"}
          /\ tier_config(T).enable_demotion
          /\ \E i \in HopsOf(trace', "deleted") :
                trace'[i].key = k /\ trace'[i].from = T)
         => /\ \/ \E j \in HopsOf(trace', "stored") :
                     /\ trace'[j].key = k
                     /\ trace'[j].from = T
                     /\ trace'[j].in_to
               \/ Surfaced(result'.ret)
            /\ \A i \in EventsOfType(emitted', "Evict") :
                  ~(emitted'[i].key = k /\ emitted'[i].tier = T)]_vars


\* ------------------------------------------------------------------------
\* The L2 directory, file operation by file operation (storage/local.rs)
\* ------------------------------------------------------------------------

DiskFrame ==
    UNCHANGED <<l1, l3, lru, metrics, emitted, trace, last_put,
                overflow_checks, fallback_on_failure, registryVars, tasks,
                lockVars, prefetchVars>>

\* The entries the manager hands to the L2 backend: put_with_tier's entry
\* for a payload that fits the tier.
DiskEntries ==
    {LET c == CompressionManager_compress(TRUE, p)
     IN  CacheEntry_new(k,
             IF c.algorithm # "none"
             THEN CacheData_compressed(c.bytes, p.len, c.algorithm)
             ELSE CacheData_uncompressed(c.bytes),
             L2Local, 0) :
        k \in Keys, p \in {q \in Payloads : q.len <= L2_MAX_SIZE_BYTES}}

\* A file that File::create or fs::write has created or truncated and not
\* yet written: no bytes for a data file, no JSON for a sidecar.
EmptyData == [kind |-> "file", bytes |-> [enc |-> "none", id |-> "empty", len |-> 0]]

EmptyMeta == [kind |-> "torn"]

\* serde_json::from_str::<StoredMetadata> succeeds on the sidecar.
Parses(meta) == meta.kind = "file"

\* put up to its first file operation: the index lookup and old_size
\* (local.rs 330-339).
LocalStorage_put_begin(b, entry) ==
    [pc |-> "create", entry |-> entry,
     old_size |-> IF entry.key \in b.index /\ IsFile(b.data[entry.key])
                  THEN b.data[entry.key].bytes.len ELSE 0]

\* The file operations of put one by one (local.rs 341-367), then the
\* index and the counters (local.rs 369-385).
LocalStorage_put_step(b, op) ==
    LET key == op.entry.key
        new_size == stored_size(op.entry)
    IN  CASE op.pc = "create" ->
               [b |-> [b EXCEPT !.data[key] = EmptyData],
                op |-> [op EXCEPT !.pc = "write"]]
          [] op.pc = "write" ->
               [b |-> [b EXCEPT !.data[key] =
                          [kind |-> "file", bytes |-> op.entry.data.bytes]],
                op |-> [op EXCEPT !.pc = "meta_create"]]
          [] op.pc = "meta_create" ->
               [b |-> [b EXCEPT !.meta[key] = EmptyMeta],
                op |-> [op EXCEPT !.pc = "meta_write"]]
          [] op.pc = "meta_write" ->
               [b |-> [b EXCEPT !.meta[key] = StoredMetadata(op.entry)],
                op |-> [op EXCEPT !.pc = "index"]]
          [] op.pc = "index" ->
               [b |-> LET indexed ==
                          IF key \in b.index THEN b
                          ELSE [b EXCEPT !.index = @ \cup {key},
                                         !.entry_count = WrapAdd(@, 1)]
                      IN  IF op.old_size = 0
                          THEN [indexed EXCEPT !.size_bytes = WrapAdd(@, new_size)]
                          ELSE IF new_size > op.old_size
                          THEN [indexed EXCEPT
                                  !.size_bytes = WrapAdd(@, new_size - op.old_size)]
                          ELSE [indexed EXCEPT
                                  !.size_bytes = WrapSub(@, op.old_size - new_size)],
                op |-> [pc |-> "idle"]]

RECURSIVE SumFileLen(_, _)
SumFileLen(b, ks) ==
    IF ks = {} THEN 0
    ELSE LET k == CHOOSE x \in ks : TRUE
         IN  b.data[k].bytes.len + SumFileLen(b, ks \ {k})

\* LocalStorage::rebuild_index (local.rs 148-198): a key is indexed when its
\* sidecar parses and its data file exists.
LocalStorage_rebuild_index(b) ==
    LET found == {k \in Keys : Parses(b.meta[k]) /\ IsFile(b.data[k])}
    IN  [b EXCEPT !.index = found,
                  !.size_bytes = SumFileLen(b, found),
                  !.entry_count = Cardinality(found)]

\* l2.put(entry) starts.
DiskPutBegin(entry) ==
    /\ now < MaxCalls
    /\ l2ops.put.pc = "idle"
    /\ l2ops.del.pc = "idle"
    /\ l2ops' = [l2ops EXCEPT !.put = LocalStorage_put_begin(l2, entry)]
    /\ now' = now + 1
    /\ result' = [op |-> "l2.put", key |-> entry.key, ret |-> Pending]
    /\ UNCHANGED l2
    /\ DiskFrame

\* The put does its next file operation, or updates the index and returns.
DiskPutStep ==
    /\ l2ops.put.pc # "idle"
    /\ LET r == LocalStorage_put_step(l2, l2ops.put)
       IN  /\ l2' = r.b
           /\ l2ops' = [l2ops EXCEPT !.put = r.op]
           /\ result' = [op |-> "l2.put", key |-> l2ops.put.entry.key,
                         ret |-> IF r.op.pc = "idle" THEN Ok(TRUE) ELSE Pending]
    /\ UNCHANGED now
    /\ DiskFrame

\* The process dies and is started again: the calls in flight and the
\* spawned tasks are gone, the files stay as they are, and with_config
\* rebuilds the index from them (local.rs 125-144).
CrashRestart ==
    /\ l2' = LocalStorage_rebuild_index(l2)
    /\ l2ops' = L2Ops_new
    /\ result' = [op |-> "restart", during |-> l2ops.put.pc]
    /\ UNCHANGED now
    /\ DiskFrame

CrashNext ==
    \/ \E entry \in DiskEntries : DiskPutBegin(entry)
    \/ DiskPutStep
    \/ CrashRestart

SpecCrash == Init /\ [][CrashNext]_vars

\* The sidecar's compressed flag, algorithm and original_size are those of
\* the bytes in the data file.
Describes(meta, data) ==
    /\ meta.compressed = (data.bytes.enc # "none")
    /\ meta.compression_algorithm
          = (IF data.bytes.enc = "none" THEN NoAlgorithm ELSE data.bytes.enc)
    /\ meta.original_size = PayloadOf(data.bytes.id).len

\* C35: after a crash at any point of an L2 put, of a new key or over an
\* existing one, and the rebuild of the index at restart, every indexed key
\* has a data file and a sidecar that one put wrote, a data file without
\* sidecar and a sidecar without data file are not indexed, and size_bytes
\* and entry_count are those of the indexed files.
C35_RebuildAfterCrash ==
    result.op = "restart" =>
        /\ \A k \in l2.index :
              /\ IsFile(l2.data[k])
              /\ Parses(l2.meta[k])
              /\ Describes(l2.meta[k], l2.data[k])
        /\ \A k \in Keys :
              (~IsFile(l2.data[k]) \/ ~Parses(l2.meta[k])) => k \notin l2.index
        /\ l2.size_bytes = SumFileLen(l2, l2.index)
        /\ l2.entry_count = Cardinality(l2.index)


\* get, taken as one read of the index, the sidecar and the data file
\* (local.rs 238-302), and the write-back it spawns (local.rs 304-315): the
\* sidecar as read, with last_accessed set to now.
LocalStorage_get_spawning(b, key, now_s) ==
    IF key \notin b.index \/ ~Parses(b.meta[key]) \/ ~IsFile(b.data[key])
    THEN [spawned |-> {}, ret |-> None]
    ELSE [spawned |-> {[key |-> key,
                        meta |-> [b.meta[key] EXCEPT !.last_accessed = now_s]]},
          ret |-> ReconstructEntry(b.meta[key], b.data[key].bytes, L2Local,
                                   b.meta[key].last_accessed)]

\* The spawned task: fs::write(meta_path, updated_metadata), which creates
\* the file when there is none.
LocalStorage_write_back(b, t) == [b EXCEPT !.meta[t.key] = t.meta]

\* delete up to its first file operation: the key leaves the index
\* (local.rs 394-405).
LocalStorage_delete_begin(b, key) ==
    IF key \in b.index
    THEN [b |-> [b EXCEPT !.index = @ \ {key}],
          op |-> [pc |-> "remove_data", key |-> key, file_size |-> 0]]
    ELSE [b |-> b, op |-> [pc |-> "idle"]]

\* The file operations of delete one by one (local.rs 455-461), then the
\* counters (local.rs 464-465).
LocalStorage_delete_step(b, op) ==
    CASE op.pc = "remove_data" ->
           [b |-> [b EXCEPT !.data[op.key] = NoFile],
            op |-> [op EXCEPT !.pc = "remove_meta",
                              !.file_size = IF IsFile(b.data[op.key])
                                            THEN b.data[op.key].bytes.len ELSE 0]]
      [] op.pc = "remove_meta" ->
           [b |-> [b EXCEPT !.meta[op.key] = NoFile],
            op |-> [op EXCEPT !.pc = "stats"]]
      [] op.pc = "stats" ->
           [b |-> [b EXCEPT !.entry_count = WrapSub(@, 1),
                            !.size_bytes = WrapSub(@, op.file_size)],
            op |-> [pc |-> "idle"]]

\* l2.get(key) returns and leaves its write-back behind.
DiskGet(key) ==
    /\ now < MaxCalls
    /\ LET r == LocalStorage_get_spawning(l2, key, now + 1)
       IN  /\ l2ops' = [l2ops EXCEPT !.touch = @ \cup r.spawned]
           /\ result' = [op |-> "l2.get", key |-> key, ret |-> r.ret]
    /\ now' = now + 1
    /\ UNCHANGED l2
    /\ DiskFrame

\* A spawned write-back runs.
DiskWriteBack(t) ==
    /\ t \in l2ops.touch
    /\ l2' = LocalStorage_write_back(l2, t)
    /\ l2ops' = [l2ops EXCEPT !.touch = @ \ {t}]
    /\ result' = [op |-> "write_back", key |-> t.key]
    /\ UNCHANGED now
    /\ DiskFrame

\* l2.delete(key) starts.
DiskDeleteBegin(key) ==
    /\ now < MaxCalls
    /\ l2ops.put.pc = "idle"
    /\ l2ops.del.pc = "idle"
    /\ LET r == LocalStorage_delete_begin(l2, key)
       IN  /\ l2' = r.b
           /\ l2ops' = [l2ops EXCEPT !.del = r.op]
           /\ result' = [op |-> "l2.delete", key |-> key,
                         ret |-> IF r.op.pc = "idle" THEN None ELSE Pending]
    /\ now' = now + 1
    /\ DiskFrame

\* The delete does its next file operation, or updates the counters and
\* returns.
DiskDeleteStep ==
    /\ l2ops.del.pc # "idle"
    /\ LET r == LocalStorage_delete_step(l2, l2ops.del)
       IN  /\ l2' = r.b
           /\ l2ops' = [l2ops EXCEPT !.del = r.op]
           /\ result' = [op |-> "l2.delete", key |-> l2ops.del.key,
                         ret |-> IF r.op.pc = "idle" THEN Ok(TRUE) ELSE Pending]
    /\ UNCHANGED now
    /\ DiskFrame

\* Puts and deletes one after the other, gets and their write-backs at any
\* point in between.
WriteBackNext ==
    \/ \E entry \in DiskEntries : DiskPutBegin(entry)
    \/ DiskPutStep
    \/ \E key \in Keys : DiskGet(key)
    \/ \E t \in l2ops.touch : DiskWriteBack(t)
    \/ \E key \in Keys : DiskDeleteBegin(key)
    \/ DiskDeleteStep

SpecWriteBack == Init /\ [][WriteBackNext]_vars

\* No L2 call is in flight and every spawned write-back has run.
DiskQuiescent == l2ops = L2Ops_new

\* C36: the write-back spawned by an L2 get changes nothing but
\* last_accessed and access_count of the entry stored: whatever put or
\* delete of the key it overlaps, once every task has finished the sidecar
\* describes the data file beside it, and a deleted key has no sidecar.
C36_WriteBackOnlyTouchesAccessTime ==
    DiskQuiescent =>
        \A k \in Keys :
            /\ (Parses(l2.meta[k]) /\ IsFile(l2.data[k]))
                  => Describes(l2.meta[k], l2.data[k])
            /\ k \notin l2.index => l2.meta[k] = NoFile


\* ------------------------------------------------------------------------
\* Per-tier counters and wrap-around
\* ------------------------------------------------------------------------

\* A u64 counter that was decremented below zero: the model's calls add at
\* most a few thousand to a counter, a wrapped one stands just under U64.
Wrapped(counter) == counter >= U64 \div 2

\* C37: no per-tier metric counter is decremented below zero: in every state
\* reachable by put, put_with_tier, get, delete, evict and clear_tier,
\* bytes_stored and entry_count of every tier have not wrapped.
C37_TierCountersNeverWrap ==
    \A t \in CacheTier :
        /\ ~Wrapped(metrics[t].bytes_stored)
        /\ ~Wrapped(metrics[t].entry_count)


\* ------------------------------------------------------------------------
\* Global registry counters under concurrent register and deregister
\* ------------------------------------------------------------------------

\* C39: under concurrent register and deregister of one node id no global
\* counter is decremented before its matching increment has been applied:
\* stats() never sees total_nodes, online_nodes, total_drives,
\* total_capacity_bytes or available_capacity_bytes wrapped below zero.
C39_GlobalCountersNeverWrap ==
    /\ ~Wrapped(global_stats.total_nodes)
    /\ ~Wrapped(global_stats.online_nodes)
    /\ ~Wrapped(global_stats.total_drives)
    /\ ~Wrapped(global_stats.total_capacity_bytes)
    /\ ~Wrapped(global_stats.available_capacity_bytes)


\* ------------------------------------------------------------------------
\* Specification of a delete that overlaps an evict or a get
\*
\* The tasks of SpecRace, and delete calls that run while the evict task is
\* suspended between storage.delete and demote, or the get task between two
\* lookups.  A key is put before it is deleted and not afterwards: last_put
\* of a key whose delete has returned is Deleted.
\* ------------------------------------------------------------------------

Deleted == "deleted"

\* delete(key) runs from its start to its return while the other tasks stay
\* where they are.
RaceDelete(key) ==
    LET r == delete(World, key)
    IN /\ now < MaxCalls
       /\ last_put[key] \notin {"unset", Deleted}
       /\ l1' = r.w.l1
       /\ l2' = r.w.l2
       /\ l3' = r.w.l3
       /\ lru' = r.w.lru
       /\ metrics' = r.w.metrics
       /\ emitted' = r.w.emitted
       /\ trace' = r.w.trace
       /\ result' = [op |-> "delete", key |-> key, ret |-> r.ret]
       /\ last_put' = [last_put EXCEPT ![key] = Deleted]
       /\ now' = now + 1
       /\ UNCHANGED <<overflow_checks, fallback_on_failure, registryVars, tasks,
                      lockVars, prefetchVars, diskVars>>

DeleteRaceNext ==
    \/ \E key \in Keys, payload \in Payloads : RacePut(key, payload)
    \/ \E tier \in CacheTier, bytes_to_free \in EvictAmounts :
           EvictBegin(tier, bytes_to_free)
    \/ EvictDelete
    \/ EvictDemote
    \/ \E key \in Keys : GetBegin(key)
    \/ GetLookup
    \/ \E key \in Keys : RaceDelete(key)

SpecDeleteRace == Init /\ [][DeleteRaceNext]_vars

\* C38: when delete(k) has returned and no put of k is invoked afterwards,
\* then once the operations that ran concurrently with the delete (a get
\* that promotes k, an evict that demotes k) have completed, no tier backend
\* holds k.
C38_DeletedKeyStaysDeleted ==
    \A k \in Keys :
        (last_put[k] = Deleted /\ tasks.evict = Idle /\ tasks.get = Idle)
            => HoldingTiers(k) = {}


\* ------------------------------------------------------------------------
\* Termination of Prefetcher::submit
\* ------------------------------------------------------------------------

\* C40: submit always returns: for every configured max_queue_size, 0
\* included, and every queue content its drop loop terminates and the queue
\* mutex is released, so that later submit, next_batch and queue_size calls
\* can proceed.
C40_SubmitAlwaysReturns ==
    /\ ~prefetcher.spinning
    /\ result.op = "submit" => result.ret = Ok(TRUE)


====
